---- MODULE Spec2Model ----
(***************************************************************************)
(* cnxt: terminal text styling.  The colour model (src/src/color.rs), the  *)
(* style bit set (src/src/style.rs) and the ColoredString builder and      *)
(* renderer (src/src/lib.rs).                                              *)
(*                                                                         *)
(* Text is a sequence of one-character strings; the token "ESC" stands for *)
(* the single byte 0x1B.  A Color is a record whose tag is the variant     *)
(* name; Option<T> is the empty sequence (None) or a one-element sequence  *)
(* (Some).  A u32 is a pair <<hi, lo>> of 16-bit halves, because the       *)
(* sentinel u32::MAX is larger than the integers of the model checker.     *)
(***************************************************************************)
EXTENDS Integers, Sequences, FiniteSets, TLC

VARIABLES
    level,      \* the process-wide capability cell (control::ColorLevel)
    c,          \* colour model: the Color a function is applied to
    op,         \* the function applied last ("none" before)
    ret,        \* what the function applied last returned
    arg,        \* the arguments of the function applied last
    input,      \* ColoredString.input
    fgcolor,    \* ColoredString.fgcolor
    bgcolor,    \* ColoredString.bgcolor
    style,      \* ColoredString.style (the u8 of Style)
    out         \* Option<String>: the result of the last to_string()

vars == <<level, c, op, ret, arg, input, fgcolor, bgcolor, style, out>>
colorVars == <<c, op, ret, arg>>
stringVars == <<input, fgcolor, bgcolor, style, out>>

-----------------------------------------------------------------------------
(* Bounds and sampled inputs *)

\* most writes of the capability cell during one render
MaxWrites == 1

\* longest hex string drawn from HexChars, counted in characters
MaxHexChars == 4

\* longest chain of builder calls
MaxCalls == 3

\* longest list given to Style::from_iter
MaxIter == 2

\* longest text, counted in pieces of TextPieces
MaxPieces == 2

\* sampled values of one u8 colour channel: the 16-colour table values, the
\* cube steps and their midpoints, and the ends of the range
Channels == {0, 47, 64, 95, 115, 128, 192, 215, 255}

-----------------------------------------------------------------------------
(* Option<T> *)

None == <<>>
Some(x) == <<x>>

-----------------------------------------------------------------------------
(* control::ColorLevel and the capability cell *)

ColorLevel == {"None", "Ansi16", "Ansi256", "TrueColor"}

-----------------------------------------------------------------------------
(* color.rs *)

NamedTags ==
    <<"Black", "Red", "Green", "Yellow", "Blue", "Magenta", "Cyan", "White",
      "BrightBlack", "BrightRed", "BrightGreen", "BrightYellow",
      "BrightBlue", "BrightMagenta", "BrightCyan", "BrightWhite">>

Named(t) == [tag |-> t]
Ansi256(i) == [tag |-> "Ansi256", idx |-> i]
TrueColor(r, g, b) == [tag |-> "TrueColor", r |-> r, g |-> g, b |-> b]

NamedColors == {Named(NamedTags[i]) : i \in 1..16}
Ansi256Colors == {Ansi256(i) : i \in 0..255}
TrueColors == {TrueColor(r, g, b) : r \in Channels, g \in Channels, b \in Channels}
Color == NamedColors \cup Ansi256Colors \cup TrueColors

\* const ANSI_16_COLORS: [(u8, u8, u8, Color); 16]; entry i of the code is
\* ANSI_16_COLORS[i + 1] here
ANSI_16_COLORS ==
    << <<0, 0, 0, Named("Black")>>,
       <<128, 0, 0, Named("Red")>>,
       <<0, 128, 0, Named("Green")>>,
       <<128, 128, 0, Named("Yellow")>>,
       <<0, 0, 128, Named("Blue")>>,
       <<128, 0, 128, Named("Magenta")>>,
       <<0, 128, 128, Named("Cyan")>>,
       <<192, 192, 192, Named("White")>>,
       <<128, 128, 128, Named("BrightBlack")>>,
       <<255, 0, 0, Named("BrightRed")>>,
       <<0, 255, 0, Named("BrightGreen")>>,
       <<255, 255, 0, Named("BrightYellow")>>,
       <<0, 0, 255, Named("BrightBlue")>>,
       <<255, 0, 255, Named("BrightMagenta")>>,
       <<0, 255, 255, Named("BrightCyan")>>,
       <<255, 255, 255, Named("BrightWhite")>> >>

\* CUBE_VALUES with evenly spaced steps
CUBE_VALUES_even == <<0, 51, 102, 153, 204, 255>>

\* const CUBE_VALUES: [u8; 6] = [0, 0x5f, 0x87, 0xaf, 0xd7, 0xff]
CUBE_VALUES == <<0, 95, 135, 175, 215, 255>>

\* u32 values as <<hi, lo>>, both halves in 0..65535
U32(n) == <<n \div 65536, n % 65536>>
U32_MAX == <<65535, 65535>>
LtU32(a, b) == a[1] < b[1] \/ (a[1] = b[1] /\ a[2] < b[2])

\* ansi256_to_rgb with a gray ramp of step 11, which leaves the u8 range
ansi256_to_rgb_step11(idx) ==
    IF idx < 16 THEN
        LET e == ANSI_16_COLORS[idx + 1] IN <<e[1], e[2], e[3]>>
    ELSE IF idx <= 231 THEN
        LET i == idx - 16
        IN <<CUBE_VALUES[(i \div 36) + 1], CUBE_VALUES[((i % 36) \div 6) + 1],
             CUBE_VALUES[(i % 6) + 1]>>
    ELSE
        LET gray_value == (8 + (((idx - 232) * 11) % 256)) % 256
        IN <<gray_value, gray_value, gray_value>>

\* fn ansi256_to_rgb(idx: u8) -> (u8, u8, u8); u8 arithmetic wraps at 256
ansi256_to_rgb(idx) ==
    IF idx < 16 THEN
        LET e == ANSI_16_COLORS[idx + 1] IN <<e[1], e[2], e[3]>>
    ELSE IF idx <= 231 THEN
        LET i == idx - 16
            r == i \div 36
            rem == i % 36
            g == rem \div 6
            b == rem % 6
        IN <<CUBE_VALUES[r + 1], CUBE_VALUES[g + 1], CUBE_VALUES[b + 1]>>
    ELSE
        LET gray_level == idx - 232
            gray_value == (8 + ((gray_level * 10) % 256)) % 256
        IN <<gray_value, gray_value, gray_value>>

\* distance_sq without the blue channel
distance_sq_no_blue(r, g, b, cr, cg, cb) ==
    U32((r - cr) * (r - cr) + (g - cg) * (g - cg))

\* let distance_sq = dr + dg + db, the three squares taken in i32 and cast
\* to u32 (each is at most 255^2, the sum at most 195075)
distance_sq(r, g, b, cr, cg, cb) ==
    U32((r - cr) * (r - cr) + (g - cg) * (g - cg) + (b - cb) * (b - cb))

\* closer with <= for <: a later candidate at the same distance wins
closer_or_equal(distance, min_distance_sq) ==
    ~LtU32(min_distance_sq, distance)

\* the replacement test of both nearest-colour loops
closer(distance, min_distance_sq) == LtU32(distance, min_distance_sq)

\* one iteration of the loop of fallback_to_ansi16, on table entry i; the
\* loop state is <<min_distance_sq, closest_color>>
ansi16_step(r, g, b, st, i) ==
    LET e == ANSI_16_COLORS[i]
        d == distance_sq(r, g, b, e[1], e[2], e[3])
    IN IF closer(d, st[1]) THEN <<d, e[4]>> ELSE st

\* for &(cr, cg, cb, color) in &ANSI_16_COLORS: the iterations lo..hi in
\* order (the range is split in two to keep the evaluation shallow)
RECURSIVE ansi16_loop(_, _, _, _, _, _)
ansi16_loop(r, g, b, st, lo, hi) ==
    IF lo > hi THEN st
    ELSE IF lo = hi THEN ansi16_step(r, g, b, st, lo)
    ELSE LET mid == (lo + hi) \div 2
             first == ansi16_loop(r, g, b, st, lo, mid)
         IN IF Len(first) = 2 THEN ansi16_loop(r, g, b, first, mid + 1, hi)
            ELSE first

\* fallback_to_ansi16 without the Ansi256 arm
fallback_to_ansi16_truecolor_only(self) ==
    IF self.tag = "TrueColor" THEN
        ansi16_loop(self.r, self.g, self.b, <<U32_MAX, self>>,
                    1, Len(ANSI_16_COLORS))[2]
    ELSE self

\* pub fn fallback_to_ansi16(self) -> Self
fallback_to_ansi16(self) ==
    IF self.tag = "Ansi256" THEN
        LET rgb == ansi256_to_rgb(self.idx)
        IN ansi16_loop(rgb[1], rgb[2], rgb[3], <<U32_MAX, self>>,
                       1, Len(ANSI_16_COLORS))[2]
    ELSE IF self.tag = "TrueColor" THEN
        ansi16_loop(self.r, self.g, self.b, <<U32_MAX, self>>,
                    1, Len(ANSI_16_COLORS))[2]
    ELSE self

\* one iteration of the loop of fallback_to_ansi256, on index idx; the loop
\* state is <<min_distance_sq, closest_idx>>
ansi256_step(r, g, b, st, idx) ==
    LET p == ansi256_to_rgb(idx)
        d == distance_sq(r, g, b, p[1], p[2], p[3])
    IN IF closer(d, st[1]) THEN <<d, idx>> ELSE st

\* for idx in 0u8..=255: the iterations lo..hi in order
RECURSIVE ansi256_loop(_, _, _, _, _, _)
ansi256_loop(r, g, b, st, lo, hi) ==
    IF lo > hi THEN st
    ELSE IF lo = hi THEN ansi256_step(r, g, b, st, lo)
    ELSE LET mid == (lo + hi) \div 2
             first == ansi256_loop(r, g, b, st, lo, mid)
         IN IF Len(first) = 2 THEN ansi256_loop(r, g, b, first, mid + 1, hi)
            ELSE first

\* fallback_to_ansi256 searching the cube and the grays only (16..=255)
fallback_to_ansi256_from_cube(self) ==
    IF self.tag = "TrueColor"
    THEN Ansi256(ansi256_loop(self.r, self.g, self.b, <<U32_MAX, 0>>, 16, 255)[2])
    ELSE self

\* pub fn fallback_to_ansi256(self) -> Self
fallback_to_ansi256(self) ==
    IF self.tag = "TrueColor"
    THEN Ansi256(ansi256_loop(self.r, self.g, self.b, <<U32_MAX, 0>>, 0, 255)[2])
    ELSE self

\* format!("{n}") of an unsigned integer: decimal digits, no leading zero
Digit(d) == <<"0", "1", "2", "3", "4", "5", "6", "7", "8", "9">>[d + 1]
RECURSIVE Dec(_)
Dec(n) == IF n < 10 THEN <<Digit(n)>> ELSE Dec(n \div 10) \o <<Digit(n % 10)>>

\* the string literals of the named arms of to_fg_str
NamedFg ==
    [t \in {NamedTags[i] : i \in 1..16} |->
        CASE t = "Black" -> <<"3", "0">>
          [] t = "Red" -> <<"3", "1">>
          [] t = "Green" -> <<"3", "2">>
          [] t = "Yellow" -> <<"3", "3">>
          [] t = "Blue" -> <<"3", "4">>
          [] t = "Magenta" -> <<"3", "5">>
          [] t = "Cyan" -> <<"3", "6">>
          [] t = "White" -> <<"3", "7">>
          [] t = "BrightBlack" -> <<"9", "0">>
          [] t = "BrightRed" -> <<"9", "1">>
          [] t = "BrightGreen" -> <<"9", "2">>
          [] t = "BrightYellow" -> <<"9", "3">>
          [] t = "BrightBlue" -> <<"9", "4">>
          [] t = "BrightMagenta" -> <<"9", "5">>
          [] t = "BrightCyan" -> <<"9", "6">>
          [] t = "BrightWhite" -> <<"9", "7">>]

\* NamedBg with the bright backgrounds written as the standard ones
NamedBg_standard_only ==
    [t \in {NamedTags[i] : i \in 1..16} |-> <<"4", NamedFg[t][2]>>]

\* the string literals of the named arms of to_bg_str
NamedBg ==
    [t \in {NamedTags[i] : i \in 1..16} |->
        CASE t = "Black" -> <<"4", "0">>
          [] t = "Red" -> <<"4", "1">>
          [] t = "Green" -> <<"4", "2">>
          [] t = "Yellow" -> <<"4", "3">>
          [] t = "Blue" -> <<"4", "4">>
          [] t = "Magenta" -> <<"4", "5">>
          [] t = "Cyan" -> <<"4", "6">>
          [] t = "White" -> <<"4", "7">>
          [] t = "BrightBlack" -> <<"1", "0", "0">>
          [] t = "BrightRed" -> <<"1", "0", "1">>
          [] t = "BrightGreen" -> <<"1", "0", "2">>
          [] t = "BrightYellow" -> <<"1", "0", "3">>
          [] t = "BrightBlue" -> <<"1", "0", "4">>
          [] t = "BrightMagenta" -> <<"1", "0", "5">>
          [] t = "BrightCyan" -> <<"1", "0", "6">>
          [] t = "BrightWhite" -> <<"1", "0", "7">>]

\* to_fg_str without the Ansi256 arm of a TrueColor
to_fg_str_no_ansi256(self, l1) ==
    IF self.tag = "Ansi256" THEN
        <<"3", "8", ";", "5", ";">> \o Dec(self.idx)
    ELSE IF self.tag = "TrueColor" THEN
        IF l1 = "Ansi16" THEN NamedFg[fallback_to_ansi16(self).tag]
        ELSE <<"3", "8", ";", "2", ";">> \o Dec(self.r) \o <<";">>
                 \o Dec(self.g) \o <<";">> \o Dec(self.b)
    ELSE NamedFg[self.tag]

\* pub fn to_fg_str(&self).  l1 is the capability read by the TrueColor arm;
\* the calls it makes on the downgraded colour read the capability no more.
to_fg_str(self, l1) ==
    IF self.tag = "Ansi256" THEN
        <<"3", "8", ";", "5", ";">> \o Dec(self.idx)
    ELSE IF self.tag = "TrueColor" THEN
        IF l1 = "Ansi16" THEN NamedFg[fallback_to_ansi16(self).tag]
        ELSE IF l1 = "Ansi256" THEN
            <<"3", "8", ";", "5", ";">> \o Dec(fallback_to_ansi256(self).idx)
        ELSE <<"3", "8", ";", "2", ";">> \o Dec(self.r) \o <<";">>
                 \o Dec(self.g) \o <<";">> \o Dec(self.b)
    ELSE NamedFg[self.tag]

\* the Ansi256 arm of to_bg_str under the capability l it reads
to_bg_str_ansi256(self, l) ==
    IF l = "Ansi16" THEN NamedBg[fallback_to_ansi16(self).tag]
    ELSE <<"4", "8", ";", "5", ";">> \o Dec(self.idx)

\* pub fn to_bg_str(&self).  l1 is the capability read by the arm of self,
\* l2 the one read by the nested call on the Ansi256 downgrade of a
\* TrueColor.
to_bg_str_reads(self, l1, l2) ==
    IF self.tag = "Ansi256" THEN to_bg_str_ansi256(self, l1)
    ELSE IF self.tag = "TrueColor" THEN
        IF l1 = "Ansi16" THEN NamedBg[fallback_to_ansi16(self).tag]
        ELSE IF l1 = "Ansi256" THEN
            to_bg_str_ansi256(fallback_to_ansi256(self), l2)
        ELSE <<"4", "8", ";", "2", ";">> \o Dec(self.r) \o <<";">>
                 \o Dec(self.g) \o <<";">> \o Dec(self.b)
    ELSE NamedBg[self.tag]

\* to_bg_str when the capability cell is not written during the call
to_bg_str(self, l) == to_bg_str_reads(self, l, l)

\* to_fg_str: the colour on which the arm of self calls to_fg_str again
\* under the capability l it reads, None when the arm returns a fragment
to_fg_str_recursion(self, l) ==
    IF self.tag = "TrueColor" /\ l = "Ansi16" THEN Some(fallback_to_ansi16(self))
    ELSE IF self.tag = "TrueColor" /\ l = "Ansi256"
    THEN Some(fallback_to_ansi256(self))
    ELSE None

\* to_bg_str_recursion with the Ansi256 arm downgrading to 256 colours, which
\* gives the colour itself
to_bg_str_recursion_same_tier(self, l) ==
    IF self.tag \in {"TrueColor", "Ansi256"} /\ l = "Ansi16"
    THEN Some(fallback_to_ansi16(self))
    ELSE IF self.tag \in {"TrueColor", "Ansi256"} /\ l = "Ansi256"
    THEN Some(fallback_to_ansi256(self))
    ELSE None

\* to_bg_str: the colour on which the arm of self calls to_bg_str again
\* under the capability l it reads, None when the arm returns a fragment
to_bg_str_recursion(self, l) ==
    IF self.tag \in {"TrueColor", "Ansi256"} /\ l = "Ansi16"
    THEN Some(fallback_to_ansi16(self))
    ELSE IF self.tag = "TrueColor" /\ l = "Ansi256"
    THEN Some(fallback_to_ansi256(self))
    ELSE None

-----------------------------------------------------------------------------
(* style.rs *)

CLEARV == 0
BOLD == 1
UNDERLINE == 2
REVERSED == 4
ITALIC == 8
BLINK == 16
HIDDEN == 32
DIMMED == 64
STRIKETHROUGH == 128

\* STYLES in the order of the SGR codes
STYLES_by_code ==
    << <<BOLD, "Bold">>,
       <<DIMMED, "Dimmed">>,
       <<ITALIC, "Italic">>,
       <<UNDERLINE, "Underline">>,
       <<BLINK, "Blink">>,
       <<REVERSED, "Reversed">>,
       <<HIDDEN, "Hidden">>,
       <<STRIKETHROUGH, "Strikethrough">> >>

\* static STYLES: [(u8, Styles); 8]
STYLES ==
    << <<BOLD, "Bold">>,
       <<DIMMED, "Dimmed">>,
       <<UNDERLINE, "Underline">>,
       <<REVERSED, "Reversed">>,
       <<ITALIC, "Italic">>,
       <<BLINK, "Blink">>,
       <<HIDDEN, "Hidden">>,
       <<STRIKETHROUGH, "Strikethrough">> >>

\* pub static CLEAR: Style = Style(CLEARV)
CLEAR == CLEARV

\* the operators & and | of u8
RECURSIVE BitAnd(_, _)
BitAnd(a, b) ==
    IF a = 0 \/ b = 0 THEN 0
    ELSE (a % 2) * (b % 2) + 2 * BitAnd(a \div 2, b \div 2)

RECURSIVE BitOr(_, _)
BitOr(a, b) ==
    IF a = 0 THEN b
    ELSE IF b = 0 THEN a
    ELSE (IF a % 2 = 1 \/ b % 2 = 1 THEN 1 ELSE 0)
             + 2 * BitOr(a \div 2, b \div 2)

\* the operator ^ of u8
RECURSIVE BitXor(_, _)
BitXor(a, b) ==
    IF a = 0 THEN b
    ELSE IF b = 0 THEN a
    ELSE (IF (a % 2) # (b % 2) THEN 1 ELSE 0) + 2 * BitXor(a \div 2, b \div 2)

\* the low n bits of a, each flipped
RECURSIVE FlipBits(_, _)
FlipBits(a, n) ==
    IF n = 0 THEN 0
    ELSE (1 - (a % 2)) + 2 * FlipBits(a \div 2, n - 1)

\* - for !: the negation of a u8, wrapping
NotU8_negate(a) == (256 - a) % 256

\* the operator ! of u8
NotU8(a) == FlipBits(a, 8)

\* enum Styles
Styles ==
    {"Clear", "Bold", "Dimmed", "Underline", "Reversed", "Italic", "Blink",
     "Hidden", "Strikethrough"}

\* fn Styles::to_str(self) -> &str
Styles_to_str(s) ==
    CASE s = "Clear" -> <<>>
      [] s = "Bold" -> <<"1">>
      [] s = "Dimmed" -> <<"2">>
      [] s = "Italic" -> <<"3">>
      [] s = "Underline" -> <<"4">>
      [] s = "Blink" -> <<"5">>
      [] s = "Reversed" -> <<"7">>
      [] s = "Hidden" -> <<"8">>
      [] s = "Strikethrough" -> <<"9">>

\* fn Styles::to_u8(self) -> u8
Styles_to_u8(s) ==
    CASE s = "Clear" -> CLEARV
      [] s = "Bold" -> BOLD
      [] s = "Dimmed" -> DIMMED
      [] s = "Italic" -> ITALIC
      [] s = "Underline" -> UNDERLINE
      [] s = "Blink" -> BLINK
      [] s = "Reversed" -> REVERSED
      [] s = "Hidden" -> HIDDEN
      [] s = "Strikethrough" -> STRIKETHROUGH

\* fn Styles::from_u8(u: u8) -> Option<Vec<Self>>
Styles_from_u8(u) ==
    IF u = CLEARV THEN None
    ELSE LET hit(e) == 0 # BitAnd(u, e[1])
             sel == SelectSeq(STYLES, hit)
             res == [i \in 1..Len(sel) |-> sel[i][2]]
         IN IF res = <<>> THEN None ELSE Some(res)

\* [&str]::join(sep)
RECURSIVE join(_, _)
join(strs, sep) ==
    IF Len(strs) = 0 THEN <<>>
    ELSE IF Len(strs) = 1 THEN strs[1]
    ELSE strs[1] \o sep \o join(Tail(strs), sep)

\* pub fn Style::contains(self, style: Styles) -> bool
contains(self, s) == BitAnd(self, Styles_to_u8(s)) = Styles_to_u8(s)

\* pub(crate) fn Style::to_str(self) -> String
Style_to_str(self) ==
    LET found == Styles_from_u8(self)
        styles == IF found = None THEN <<>> ELSE found[1]
    IN join([i \in 1..Len(styles) |-> Styles_to_str(styles[i])], <<";">>)

\* pub fn Style::add(&mut self, two: Styles)
add(self, two) == BitOr(self, Styles_to_u8(two))

\* remove toggling the switch: self.0 ^= two.to_u8()
remove_toggle(self, two) == BitXor(self, Styles_to_u8(two))

\* pub fn Style::remove(&mut self, two: Styles)
remove(self, two) == BitAnd(self, NotU8(Styles_to_u8(two)))

\* impl Not for Styles
Styles_not(s) == NotU8(Styles_to_u8(s))

\* impl FromIterator<Styles> for Style: the loop over iter[k..]
RECURSIVE from_iter_loop(_, _, _)
from_iter_loop(sty, iter, k) ==
    IF k > Len(iter) THEN sty
    ELSE from_iter_loop(add(sty, iter[k]), iter, k + 1)

\* fn from_iter(iter) -> Style
from_iter(iter) == from_iter_loop(CLEAR, iter, 1)

-----------------------------------------------------------------------------
(* lib.rs: ColoredString *)

\* the reset sequence "\x1B[0m"
RESET == <<"ESC", "[", "0", "m">>

\* the pieces texts are made of: a letter, a whole reset sequence and the two
\* halves of one
TextPieces == {<<"x">>, RESET, <<"ESC", "[">>, <<"0", "m">>}

\* the texts of at most n pieces
RECURSIVE TextsOf(_)
TextsOf(n) ==
    IF n = 0 THEN {<<>>}
    ELSE LET shorter == TextsOf(n - 1)
         IN shorter \cup {t \o piece : t \in shorter, piece \in TextPieces}

Texts == TextsOf(MaxPieces)

\* the colours given to the builder: a named colour of each half of the
\* table, an Ansi256 and a TrueColor
BuilderColors ==
    {Named("Red"), Named("BrightCyan"), Ansi256(196), TrueColor(255, 95, 0)}

\* the attribute methods called
StyleMethods == {"Bold", "Underline", "Italic"}

\* the ColoredString held in the state
this == [input |-> input, fgcolor |-> fgcolor, bgcolor |-> bgcolor,
         style |-> style]

\* pub fn is_plain(&self) -> bool
is_plain(self) ==
    self.bgcolor = None /\ self.fgcolor = None /\ self.style = CLEAR

\* has_colors ignoring the capability
has_colors_always(l) == TRUE

\* fn has_colors() -> bool, l being the capability it reads
has_colors(l) == l # "None"

\* compute_style without the has_wrote flag: a ';' before every colour code
compute_style_always_separator(self, l) ==
    IF ~has_colors(l) \/ is_plain(self) THEN <<>>
    ELSE
        LET res1 == IF self.style = CLEAR THEN <<"ESC", "[">>
                    ELSE <<"ESC", "[">> \o Style_to_str(self.style)
            res2 == IF self.bgcolor # None
                    THEN res1 \o <<";">> \o to_bg_str(self.bgcolor[1], l)
                    ELSE res1
            res3 == IF self.fgcolor # None
                    THEN res2 \o <<";">> \o to_fg_str(self.fgcolor[1], l)
                    ELSE res2
        IN res3 \o <<"m">>

\* fn compute_style(&self) -> String under the capability l
compute_style(self, l) ==
    IF ~has_colors(l) \/ is_plain(self) THEN <<>>
    ELSE
        LET res0 == <<"ESC", "[">>
            has_wrote0 == self.style # CLEAR
            res1 == IF self.style = CLEAR THEN res0
                    ELSE res0 \o Style_to_str(self.style)
            res2 == IF self.bgcolor # None
                    THEN (IF has_wrote0 THEN res1 \o <<";">> ELSE res1)
                             \o to_bg_str(self.bgcolor[1], l)
                    ELSE res1
            has_wrote2 == has_wrote0 \/ self.bgcolor # None
            res3 == IF self.fgcolor # None
                    THEN (IF has_wrote2 THEN res2 \o <<";">> ELSE res2)
                             \o to_fg_str(self.fgcolor[1], l)
                    ELSE res2
        IN res3 \o <<"m">>

\* str::match_indices(pat): the start offsets (from 0) of the matches of pat,
\* searched left to right without overlap, at or after offset from
RECURSIVE match_indices(_, _, _)
match_indices(str, pat, from) ==
    IF from + Len(pat) > Len(str) THEN <<>>
    ELSE IF SubSeq(str, from + 1, from + Len(pat)) = pat
         THEN <<from>> \o match_indices(str, pat, from + Len(pat))
         ELSE match_indices(str, pat, from + 1)

\* &str[a..b] and &str[a..]
Slice(str, a, b) == SubSeq(str, a + 1, b)

\* escape_loop with the style pushed before the reset sequence
RECURSIVE escape_loop_style_first(_, _, _, _, _, _)
escape_loop_style_first(str, matches, k, last_end, result, sty) ==
    IF k > Len(matches) THEN
        IF last_end < Len(str)
        THEN result \o Slice(str, last_end, Len(str))
        ELSE result
    ELSE
        LET idx == matches[k]
        IN escape_loop_style_first(str, matches, k + 1, idx + Len(RESET),
                       result \o Slice(str, last_end, idx) \o sty \o RESET,
                       sty)

\* the loop of escape_inner_reset_sequences over matches[k..], followed by
\* the copy of the rest of the input
RECURSIVE escape_loop(_, _, _, _, _, _)
escape_loop(str, matches, k, last_end, result, sty) ==
    IF k > Len(matches) THEN
        IF last_end < Len(str)
        THEN result \o Slice(str, last_end, Len(str))
        ELSE result
    ELSE
        LET idx == matches[k]
        IN escape_loop(str, matches, k + 1, idx + Len(RESET),
                       result \o Slice(str, last_end, idx) \o RESET \o sty,
                       sty)

\* fn escape_inner_reset_sequences(&self) -> Cow<str>
escape_inner_reset_sequences(self, l) ==
    IF ~has_colors(l) \/ is_plain(self) THEN self.input
    ELSE
        LET matches == match_indices(self.input, RESET, 0)
        IN IF matches = <<>> THEN self.input
           ELSE escape_loop(self.input, matches, 1, 0, <<>>,
                            compute_style(self, l))

\* impl fmt::Display for ColoredString: what to_string() returns when the
\* capability cell holds l throughout
fmt(self, l) ==
    IF ~has_colors(l) \/ is_plain(self) THEN self.input
    ELSE compute_style(self, l) \o escape_inner_reset_sequences(self, l)
             \o RESET

\* the texts that receive builder calls
ReceiverTexts == {<<>>, <<"h", "i">>}

\* impl Default for ColoredString
ColoredString_default ==
    [input |-> <<>>, fgcolor |-> None, bgcolor |-> None, style |-> CLEAR]

\* impl From<T> for ColoredString
ColoredString_from(s) == [ColoredString_default EXCEPT !.input = s]

\* do_nothing as the &str impl has it: a plain value of the same text
ColoredString_do_nothing_plain(self) == ColoredString_from(self.input)

\* impl Colorize for ColoredString: fn do_nothing(self)
ColoredString_do_nothing(self) == self

\* impl Colorize for ColoredString: fn color(mut self, color)
ColoredString_color(self, col) == [self EXCEPT !.fgcolor = Some(col)]

\* on_color writing the foreground slot
ColoredString_on_color_fgslot(self, col) == [self EXCEPT !.fgcolor = Some(col)]

\* impl Colorize for ColoredString: fn on_color(mut self, color)
ColoredString_on_color(self, col) == [self EXCEPT !.bgcolor = Some(col)]

\* an attribute method that replaces the style: self.style = $style.into()
ColoredString_style_replace(self, s) == [self EXCEPT !.style = Styles_to_u8(s)]

\* impl_coloredstring_style_methods: fn $method(mut self)
ColoredString_style(self, s) == [self EXCEPT !.style = add(self.style, s)]

\* clear that resets the colours only
ColoredString_clear_colors(self) ==
    [self EXCEPT !.fgcolor = None, !.bgcolor = None]

\* impl Colorize for ColoredString: fn clear(self)
ColoredString_clear(self) == [ColoredString_default EXCEPT !.input = self.input]

\* impl Colorize for ColoredString: fn normal(self)
ColoredString_normal(self) == ColoredString_clear(self)

\* impl Colorize for &str: fn do_nothing(self)
str_do_nothing(self) == ColoredString_from(self)

\* impl Colorize for &str: fn color(self, color)
str_color(self, col) ==
    [ColoredString_default EXCEPT !.fgcolor = Some(col), !.input = self]

\* impl Colorize for &str: fn on_color(self, color)
str_on_color(self, col) ==
    [ColoredString_default EXCEPT !.bgcolor = Some(col), !.input = self]

\* impl Colorize for &str: fn clear(self)
str_clear(self) == [ColoredString_default EXCEPT !.input = self, !.style = CLEAR]

\* impl Colorize for &str: fn normal(self)
str_normal(self) == str_clear(self)

\* impl_str_style_methods: fn $method(self)
str_style(self, s) == ColoredString_style(ColoredString_from(self), s)

\* pub fn clear_fgcolor(&mut self)
clear_fgcolor(self) == [self EXCEPT !.fgcolor = None]

\* pub fn clear_bgcolor(&mut self)
clear_bgcolor(self) == [self EXCEPT !.bgcolor = None]

\* pub fn clear_style(&mut self)
clear_style(self) == [self EXCEPT !.style = CLEAR]

\* str::make_ascii_uppercase on one character
to_ascii_uppercase(ch) ==
    CASE ch = "h" -> "H"
      [] ch = "i" -> "I"
      [] OTHER -> ch

\* str::make_ascii_uppercase through DerefMut: self.input.to_mut() edited
deref_mut_make_ascii_uppercase(self) ==
    [self EXCEPT !.input = [i \in 1..Len(self.input) |->
                               to_ascii_uppercase(self.input[i])]]

\* the colours that have conditional methods (red_if, on_bright_cyan_if)
ConditionalColors == {Named("Red"), Named("BrightCyan")}

\* impl_basic_fg_colors_conditional on a ColoredString
ColoredString_color_if(self, col, cond) ==
    IF cond THEN ColoredString_color(self, col)
    ELSE ColoredString_do_nothing(self)

\* impl_basic_bg_colors_conditional on a ColoredString
ColoredString_on_color_if(self, col, cond) ==
    IF cond THEN ColoredString_on_color(self, col)
    ELSE ColoredString_do_nothing(self)

\* impl_basic_fg_colors_conditional on a &str
str_color_if(self, col, cond) ==
    IF cond THEN str_color(self, col) ELSE str_do_nothing(self)

\* impl_basic_bg_colors_conditional on a &str
str_on_color_if(self, col, cond) ==
    IF cond THEN str_on_color(self, col) ELSE str_do_nothing(self)

-----------------------------------------------------------------------------
(* lib.rs: hex colours.  A hex string is the sequence of its UTF-8 bytes:  *)
(* an ASCII character is one token, "L2" and "L3" are the lead bytes of a  *)
(* two-byte and a three-byte character and "CB" is a continuation byte.    *)

\* the outcomes of a call: a panic, or a returned value
Panic == [kind |-> "panic"]
Return(v) == [kind |-> "return", val |-> v]

\* Result<u8, ParseIntError>
Err == [kind |-> "err"]
Ok(n) == [kind |-> "ok", val |-> n]

\* the digits of radix 16, in lower and in upper case
LowerHexDigits ==
    <<"0", "1", "2", "3", "4", "5", "6", "7", "8", "9", "a", "b", "c", "d",
      "e", "f">>
UpperHexDigits ==
    <<"0", "1", "2", "3", "4", "5", "6", "7", "8", "9", "A", "B", "C", "D",
      "E", "F">>

\* char::to_digit(16)
to_digit(ch) ==
    IF \E i \in 1..16 : LowerHexDigits[i] = ch
    THEN Some((CHOOSE i \in 1..16 : LowerHexDigits[i] = ch) - 1)
    ELSE IF \E i \in 1..16 : UpperHexDigits[i] = ch
    THEN Some((CHOOSE i \in 1..16 : UpperHexDigits[i] = ch) - 1)
    ELSE None

\* u8::from_str_radix: the digits src[k..] added to the value so far
RECURSIVE from_str_radix_loop(_, _, _)
from_str_radix_loop(src, k, result) ==
    IF k > Len(src) THEN Ok(result)
    ELSE LET d == to_digit(src[k])
         IN IF d = None THEN Err
            ELSE IF result * 16 + d[1] > 255 THEN Err
            ELSE from_str_radix_loop(src, k + 1, result * 16 + d[1])

\* u8::from_str_radix(src, 16): empty is an error, so is a lone sign; a
\* leading '+' is skipped, a '-' is no digit of an unsigned type
from_str_radix(src) ==
    IF src = <<>> THEN Err
    ELSE IF Len(src) = 1 /\ src[1] \in {"+", "-"} THEN Err
    ELSE IF src[1] = "+" THEN from_str_radix_loop(Tail(src), 1, 0)
    ELSE from_str_radix_loop(src, 1, 0)

\* str::strip_prefix('#')
strip_prefix(str) ==
    IF str # <<>> /\ str[1] = "#" THEN Some(Tail(str)) ELSE None

\* str::is_char_boundary: index is a byte offset, from 0
is_char_boundary(str, index) ==
    \/ index = 0
    \/ index = Len(str)
    \/ index < Len(str) /\ str[index + 1] # "CB"

\* &s[begin..end] followed by u8::from_str_radix(_, 16): the slice panics
\* when an end of it is inside a character
channel(str, begin, end) ==
    IF is_char_boundary(str, begin) /\ is_char_boundary(str, end)
    THEN from_str_radix(SubSeq(str, begin + 1, end))
    ELSE Panic

\* parse_hex, the arm of length 6
parse_hex_6(str) ==
    LET r == channel(str, 0, 2)
    IN IF r = Panic THEN Panic
       ELSE IF r = Err THEN Return(None)
       ELSE LET g == channel(str, 2, 4)
            IN IF g = Panic THEN Panic
               ELSE IF g = Err THEN Return(None)
               ELSE LET b == channel(str, 4, 6)
                    IN IF b = Panic THEN Panic
                       ELSE IF b = Err THEN Return(None)
                       ELSE Return(Some(TrueColor(r.val, g.val, b.val)))

\* the arm of length 3 with r << 4 for r * 17
parse_hex_3_shift(str) ==
    LET r == channel(str, 0, 1)
        g == channel(str, 1, 2)
        b == channel(str, 2, 3)
    IN IF Panic \in {r, g, b} THEN Panic
       ELSE IF Err \in {r, g, b} THEN Return(None)
       ELSE Return(Some(TrueColor(r.val * 16, g.val * 16, b.val * 16)))

\* parse_hex, the arm of length 3
parse_hex_3(str) ==
    LET r == channel(str, 0, 1)
    IN IF r = Panic THEN Panic
       ELSE IF r = Err THEN Return(None)
       ELSE LET g == channel(str, 1, 2)
            IN IF g = Panic THEN Panic
               ELSE IF g = Err THEN Return(None)
               ELSE LET b == channel(str, 2, 3)
                    IN IF b = Panic THEN Panic
                       ELSE IF b = Err THEN Return(None)
                       ELSE Return(Some(TrueColor(r.val * 17, g.val * 17,
                                                  b.val * 17)))

\* fn parse_hex(s: &str) -> Option<Color>
parse_hex(str) ==
    LET stripped == strip_prefix(str)
        s == IF stripped = None THEN str ELSE stripped[1]
    IN CASE Len(s) = 6 -> parse_hex_6(s)
         [] Len(s) = 3 -> parse_hex_3(s)
         [] OTHER -> Return(None)

\* Option::unwrap of what parse_hex gives
unwrap(res) ==
    IF res = Panic \/ res.val = None THEN Panic ELSE Return(res.val[1])

\* fn hexcolor(self, hex) -> ColoredString
hexcolor(self, hex) ==
    LET color == unwrap(parse_hex(hex))
    IN IF color = Panic THEN Panic
       ELSE Return(ColoredString_color(self, color.val))

\* fn try_hexcolor(self, hex) -> Option<ColoredString>
try_hexcolor(self, hex) ==
    LET color == parse_hex(hex)
    IN IF color = Panic THEN Panic
       ELSE IF color.val = None THEN Return(None)
       ELSE Return(Some(ColoredString_color(self, color.val[1])))

\* fn on_hexcolor(self, hex) -> ColoredString
on_hexcolor(self, hex) ==
    LET color == unwrap(parse_hex(hex))
    IN IF color = Panic THEN Panic
       ELSE Return(ColoredString_on_color(self, color.val))

\* fn try_on_hexcolor(self, hex) -> Option<ColoredString>
try_on_hexcolor(self, hex) ==
    LET color == parse_hex(hex)
    IN IF color = Panic THEN Panic
       ELSE IF color.val = None THEN Return(None)
       ELSE Return(Some(ColoredString_on_color(self, color.val[1])))

\* the characters of the short hex strings, each as its bytes
HexChars ==
    {<<"#">>, <<"0">>, <<"f">>, <<"A">>, <<"g">>, <<"+">>, <<"-">>,
     <<"L2", "CB">>}

\* the strings of at most n characters of HexChars
RECURSIVE HexStrings(_)
HexStrings(n) ==
    IF n = 0 THEN {<<>>}
    ELSE LET shorter == HexStrings(n - 1)
         IN shorter \cup {str \o ch : str \in shorter, ch \in HexChars}

\* two bytes of a six-byte hex string
HexPairs ==
    {<<"0", "0">>, <<"f", "f">>, <<"1", "a">>, <<"F", "9">>, <<"+", "f">>,
     <<"g", "0">>, <<"L2", "CB">>}

\* the hex strings given to parse_hex: the short ones, three lower-case
\* digits, three pairs, each of the last two also after '#', and
\* six-byte strings with a character across a pair
HexInputs ==
    LET digits == {LowerHexDigits[i] : i \in 1..16}
        three == {<<x, y, z>> : x \in digits, y \in digits, z \in digits}
        six == {x \o y \o z : x \in HexPairs, y \in HexPairs, z \in HexPairs}
    IN HexStrings(MaxHexChars)
          \cup three \cup {<<"#">> \o str : str \in three}
          \cup six \cup {<<"#">> \o str : str \in six}
          \cup {<<"f", "f", "a", "L3", "CB", "CB">>,
                <<"g", "g", "a", "L3", "CB", "CB">>,
                <<"L3", "CB", "CB">>}

\* the reads of the capability cell that one fmt can make, in the order of
\* the code: fmt, escape_inner_reset_sequences, the compute_style it calls
\* (has_colors, to_bg_str and the nested to_bg_str, to_fg_str), and the
\* compute_style of fmt
ReadSlots ==
    <<"fmt", "escape", "has_colors", "to_bg_str", "to_bg_str", "to_fg_str",
      "has_colors", "to_bg_str", "to_bg_str", "to_fg_str">>

\* fn compute_style(&self): r[1] is read by has_colors, r[2] and r[3] by
\* to_bg_str and its nested call, r[4] by to_fg_str
compute_style_reads(self, r) ==
    IF ~has_colors(r[1]) \/ is_plain(self) THEN <<>>
    ELSE
        LET res0 == <<"ESC", "[">>
            has_wrote0 == self.style # CLEAR
            res1 == IF self.style = CLEAR THEN res0
                    ELSE res0 \o Style_to_str(self.style)
            res2 == IF self.bgcolor # None
                    THEN (IF has_wrote0 THEN res1 \o <<";">> ELSE res1)
                             \o to_bg_str_reads(self.bgcolor[1], r[2], r[3])
                    ELSE res1
            has_wrote2 == has_wrote0 \/ self.bgcolor # None
            res3 == IF self.fgcolor # None
                    THEN (IF has_wrote2 THEN res2 \o <<";">> ELSE res2)
                             \o to_fg_str(self.fgcolor[1], r[4])
                    ELSE res2
        IN res3 \o <<"m">>

\* fn escape_inner_reset_sequences(&self): r[1] is read by has_colors,
\* r[2..5] by compute_style
escape_inner_reset_sequences_reads(self, r) ==
    IF ~has_colors(r[1]) \/ is_plain(self) THEN self.input
    ELSE
        LET matches == match_indices(self.input, RESET, 0)
        IN IF matches = <<>> THEN self.input
           ELSE escape_loop(self.input, matches, 1, 0, <<>>,
                            compute_style_reads(self, SubSeq(r, 2, 5)))

\* impl fmt::Display for ColoredString: r[1] is read by has_colors, r[2..6]
\* by escape_inner_reset_sequences, which runs first, r[7..10] by
\* compute_style
fmt_reads(self, r) ==
    IF ~has_colors(r[1]) \/ is_plain(self) THEN self.input
    ELSE compute_style_reads(self, SubSeq(r, 7, 10))
             \o escape_inner_reset_sequences_reads(self, SubSeq(r, 2, 6))
             \o RESET

\* the values that are rendered while the capability is written
RenderValues ==
    {ColoredString_from(<<"x">>),
     [ColoredString_from(<<"x">>) EXCEPT !.fgcolor = Some(Named("Red"))],
     [ColoredString_from(<<"x">>) EXCEPT
         !.bgcolor = Some(TrueColor(255, 95, 0))],
     [ColoredString_from(<<"x">> \o RESET \o <<"x">>) EXCEPT
         !.fgcolor = Some(TrueColor(255, 95, 0)),
         !.bgcolor = Some(Ansi256(196)),
         !.style = BOLD],
     [ColoredString_from(RESET) EXCEPT !.style = UNDERLINE]}

-----------------------------------------------------------------------------
(* A ColoredString built by chained calls and rendered *)

\* ColoredString::default() under the capability found at start-up
Init ==
    /\ level \in ColorLevel
    /\ c = Named("Black")
    /\ op = "none"
    /\ ret = <<>>
    /\ arg = <<>>
    /\ input = <<>>
    /\ fgcolor = None
    /\ bgcolor = None
    /\ style = CLEAR
    /\ out = None

\* fn color(mut self, color) -> ColoredString
color(col) ==
    /\ fgcolor' = Some(col)
    /\ out' = None
    /\ UNCHANGED <<level, colorVars, input, bgcolor, style>>

\* fn on_color(mut self, color) -> ColoredString
on_color(col) ==
    /\ bgcolor' = Some(col)
    /\ out' = None
    /\ UNCHANGED <<level, colorVars, input, fgcolor, style>>

\* fn bold(mut self), underline(mut self), ...: self.style.add($style)
style_method(s) ==
    /\ style' = add(style, s)
    /\ out' = None
    /\ UNCHANGED <<level, colorVars, input, fgcolor, bgcolor>>

\* fn clear(self) -> ColoredString
clear ==
    /\ fgcolor' = None
    /\ bgcolor' = None
    /\ style' = CLEAR
    /\ out' = None
    /\ UNCHANGED <<level, colorVars, input>>

\* the text edited in place through the public field: input.to_mut() grown
\* by one piece
input_push_str(piece) ==
    /\ input \o piece \in Texts
    /\ input' = input \o piece
    /\ out' = None
    /\ UNCHANGED <<level, colorVars, fgcolor, bgcolor, style>>

\* control::set_should_colorize: the capability cell overwritten
set_should_colorize(l) ==
    /\ level' = l
    /\ out' = None
    /\ UNCHANGED <<colorVars, input, fgcolor, bgcolor, style>>

\* to_string(): Display::fmt of the value under the current capability
to_string ==
    /\ out' = Some(fmt(this, level))
    /\ UNCHANGED <<level, colorVars, input, fgcolor, bgcolor, style>>

Next ==
    \/ \E col \in BuilderColors : color(col)
    \/ \E col \in BuilderColors : on_color(col)
    \/ \E s \in StyleMethods : style_method(s)
    \/ clear
    \/ \E piece \in TextPieces : input_push_str(piece)
    \/ \E l \in ColorLevel : set_should_colorize(l)
    \/ to_string

Spec == Init /\ [][Next]_vars

-----------------------------------------------------------------------------
(* The colour model applied to one colour under one capability *)

\* the colours of the 256-colour palette as TrueColor values
PaletteTrueColors ==
    {TrueColor(ansi256_to_rgb(i)[1], ansi256_to_rgb(i)[2], ansi256_to_rgb(i)[3]) :
        i \in 0..255}

InitColor ==
    /\ level \in ColorLevel
    /\ c \in Color \cup PaletteTrueColors
    /\ op = "none"
    /\ ret = <<>>
    /\ arg = <<>>
    /\ input = <<>>
    /\ fgcolor = None
    /\ bgcolor = None
    /\ style = CLEAR
    /\ out = None

Call_to_fg_str ==
    /\ op = "none"
    /\ op' = "to_fg_str"
    /\ ret' = to_fg_str(c, level)
    /\ UNCHANGED <<level, c, arg, stringVars>>

Call_to_bg_str ==
    /\ op = "none"
    /\ op' = "to_bg_str"
    /\ ret' = to_bg_str(c, level)
    /\ UNCHANGED <<level, c, arg, stringVars>>

Call_fallback_to_ansi16 ==
    /\ op = "none"
    /\ op' = "fallback_to_ansi16"
    /\ ret' = fallback_to_ansi16(c)
    /\ UNCHANGED <<level, c, arg, stringVars>>

Call_fallback_to_ansi256 ==
    /\ op = "none"
    /\ op' = "fallback_to_ansi256"
    /\ ret' = fallback_to_ansi256(c)
    /\ UNCHANGED <<level, c, arg, stringVars>>

\* ansi256_to_rgb is private: it is reached with the index of an Ansi256
Call_ansi256_to_rgb ==
    /\ op = "none"
    /\ c.tag = "Ansi256"
    /\ op' = "ansi256_to_rgb"
    /\ ret' = ansi256_to_rgb(c.idx)
    /\ UNCHANGED <<level, c, arg, stringVars>>

NextColor ==
    \/ Call_to_fg_str
    \/ Call_to_bg_str
    \/ Call_fallback_to_ansi16
    \/ Call_fallback_to_ansi256
    \/ Call_ansi256_to_rgb

SpecColor == InitColor /\ [][NextColor]_vars

-----------------------------------------------------------------------------
(* The style bit set: one operation applied to one Style *)

\* the lists of at most n Styles
RECURSIVE StylesLists(_)
StylesLists(n) ==
    IF n = 0 THEN {<<>>}
    ELSE LET shorter == StylesLists(n - 1)
         IN shorter \cup {Append(l, s) : l \in shorter, s \in Styles}

InitStyle ==
    /\ level = "TrueColor"
    /\ c = Named("Black")
    /\ op = "none"
    /\ ret = <<>>
    /\ arg = <<>>
    /\ input = <<>>
    /\ fgcolor = None
    /\ bgcolor = None
    /\ style \in 0..255
    /\ out = None

Call_Style_to_str ==
    /\ op = "none"
    /\ op' = "Style::to_str"
    /\ arg' = <<>>
    /\ ret' = Style_to_str(style)
    /\ UNCHANGED <<level, c, stringVars>>

Call_Style_not ==
    /\ op = "none"
    /\ op' = "!Style"
    /\ arg' = <<>>
    /\ ret' = NotU8(style)
    /\ UNCHANGED <<level, c, stringVars>>

\* !!x
Call_Style_not_not ==
    /\ op = "none"
    /\ op' = "!!Style"
    /\ arg' = <<>>
    /\ ret' = NotU8(NotU8(style))
    /\ UNCHANGED <<level, c, stringVars>>

\* x | !x
Call_Style_or_not ==
    /\ op = "none"
    /\ op' = "Style|!Style"
    /\ arg' = <<>>
    /\ ret' = BitOr(style, NotU8(style))
    /\ UNCHANGED <<level, c, stringVars>>

\* x & !x
Call_Style_and_not ==
    /\ op = "none"
    /\ op' = "Style&!Style"
    /\ arg' = <<>>
    /\ ret' = BitAnd(style, NotU8(style))
    /\ UNCHANGED <<level, c, stringVars>>

\* x ^ y
Call_Style_bitxor(rhs) ==
    /\ op = "none"
    /\ op' = "Style^Style"
    /\ arg' = rhs
    /\ ret' = BitXor(style, rhs)
    /\ UNCHANGED <<level, c, stringVars>>

\* x &= !mask
Call_Style_bitand_assign_not(mask) ==
    /\ op = "none"
    /\ op' = "Style&=!Style"
    /\ arg' = mask
    /\ ret' = BitAnd(style, NotU8(mask))
    /\ UNCHANGED <<level, c, stringVars>>

\* !s for one of the Styles; the Style in the state takes no part
Call_Styles_not(s) ==
    /\ op = "none"
    /\ style = CLEAR
    /\ op' = "!Styles"
    /\ arg' = s
    /\ ret' = Styles_not(s)
    /\ UNCHANGED <<level, c, stringVars>>

Call_Style_add(s) ==
    /\ op = "none"
    /\ op' = "Style::add"
    /\ arg' = s
    /\ ret' = add(style, s)
    /\ UNCHANGED <<level, c, stringVars>>

Call_Style_remove(s) ==
    /\ op = "none"
    /\ op' = "Style::remove"
    /\ arg' = s
    /\ ret' = remove(style, s)
    /\ UNCHANGED <<level, c, stringVars>>

\* Style::from_iter(list); the Style in the state is the default it starts from
Call_Style_from_iter(list) ==
    /\ op = "none"
    /\ style = CLEAR
    /\ op' = "Style::from_iter"
    /\ arg' = list
    /\ ret' = from_iter(list)
    /\ UNCHANGED <<level, c, stringVars>>

NextStyle ==
    \/ Call_Style_to_str
    \/ Call_Style_not
    \/ Call_Style_not_not
    \/ Call_Style_or_not
    \/ Call_Style_and_not
    \/ \E rhs \in 0..255 : Call_Style_bitxor(rhs)
    \/ \E mask \in 0..255 : Call_Style_bitand_assign_not(mask)
    \/ \E s \in Styles : Call_Styles_not(s)
    \/ \E s \in Styles : Call_Style_add(s)
    \/ \E s \in Styles : Call_Style_remove(s)
    \/ \E list \in StylesLists(MaxIter) : Call_Style_from_iter(list)

SpecStyle == InitStyle /\ [][NextStyle]_vars

-----------------------------------------------------------------------------
(* Chained builder calls: the receiver is a &str or a ColoredString made   *)
(* from one, arg is the list of the calls made so far                      *)

\* the builder calls of a chain
ChainCalls ==
    [m : {"color", "on_color"}, col : BuilderColors]
        \cup [m : {"style"}, s : StyleMethods]
        \cup [m : {"clear", "normal"}]

\* what a call returns, by the impl of its receiver
Colorize_call(call) ==
    IF op = "&str"
    THEN CASE call.m = "color" -> str_color(input, call.col)
           [] call.m = "on_color" -> str_on_color(input, call.col)
           [] call.m = "style" -> str_style(input, call.s)
           [] call.m = "clear" -> str_clear(input)
           [] call.m = "normal" -> str_normal(input)
    ELSE CASE call.m = "color" -> ColoredString_color(this, call.col)
           [] call.m = "on_color" -> ColoredString_on_color(this, call.col)
           [] call.m = "style" -> ColoredString_style(this, call.s)
           [] call.m = "clear" -> ColoredString_clear(this)
           [] call.m = "normal" -> ColoredString_normal(this)

InitChain ==
    /\ level = "TrueColor"
    /\ c = Named("Black")
    /\ op \in {"&str", "ColoredString"}
    /\ ret = <<>>
    /\ arg = <<>>
    /\ input \in ReceiverTexts
    /\ fgcolor = None
    /\ bgcolor = None
    /\ style = CLEAR
    /\ out = None

Chain(call) ==
    /\ Len(arg) < MaxCalls
    /\ LET r == Colorize_call(call)
       IN /\ input' = r.input
          /\ fgcolor' = r.fgcolor
          /\ bgcolor' = r.bgcolor
          /\ style' = r.style
    /\ op' = "ColoredString"
    /\ arg' = Append(arg, call)
    /\ UNCHANGED <<level, c, ret, out>>

NextChain == \E call \in ChainCalls : Chain(call)

SpecChain == InitChain /\ [][NextChain]_vars

-----------------------------------------------------------------------------
(* One value under builder calls and in-place mutation: op is the last    *)
(* call made ("&str" while the receiver is still a bare &str), arg its    *)
(* arguments                                                               *)

InitBuilder ==
    /\ level = "TrueColor"
    /\ c = Named("Black")
    /\ op \in {"&str", "ColoredString"}
    /\ ret = <<>>
    /\ arg = <<>>
    /\ input \in ReceiverTexts
    /\ fgcolor = None
    /\ bgcolor = None
    /\ style = CLEAR
    /\ out = None

\* the value r replaces the receiver
Becomes(r) ==
    /\ input' = r.input
    /\ fgcolor' = r.fgcolor
    /\ bgcolor' = r.bgcolor
    /\ style' = r.style
    /\ UNCHANGED <<level, c, ret, out>>

Builder_color(col) ==
    /\ op' = "color"
    /\ arg' = [col |-> col]
    /\ Becomes(IF op = "&str" THEN str_color(input, col)
               ELSE ColoredString_color(this, col))

Builder_on_color(col) ==
    /\ op' = "on_color"
    /\ arg' = [col |-> col]
    /\ Becomes(IF op = "&str" THEN str_on_color(input, col)
               ELSE ColoredString_on_color(this, col))

Builder_style(s) ==
    /\ op' = "style"
    /\ arg' = [s |-> s]
    /\ Becomes(IF op = "&str" THEN str_style(input, s)
               ELSE ColoredString_style(this, s))

Builder_color_if(col, cond) ==
    /\ op' = "color_if"
    /\ arg' = [col |-> col, cond |-> cond]
    /\ Becomes(IF op = "&str" THEN str_color_if(input, col, cond)
               ELSE ColoredString_color_if(this, col, cond))

Builder_on_color_if(col, cond) ==
    /\ op' = "on_color_if"
    /\ arg' = [col |-> col, cond |-> cond]
    /\ Becomes(IF op = "&str" THEN str_on_color_if(input, col, cond)
               ELSE ColoredString_on_color_if(this, col, cond))

Builder_clear_fgcolor ==
    /\ op # "&str"
    /\ op' = "clear_fgcolor"
    /\ arg' = <<>>
    /\ Becomes(clear_fgcolor(this))

Builder_clear_bgcolor ==
    /\ op # "&str"
    /\ op' = "clear_bgcolor"
    /\ arg' = <<>>
    /\ Becomes(clear_bgcolor(this))

Builder_clear_style ==
    /\ op # "&str"
    /\ op' = "clear_style"
    /\ arg' = <<>>
    /\ Becomes(clear_style(this))

\* colored_text.input = text.into()
Builder_assign_input(text) ==
    /\ op # "&str"
    /\ op' = "input="
    /\ arg' = [text |-> text]
    /\ Becomes([this EXCEPT !.input = text])

\* colored_text.make_ascii_uppercase()
Builder_deref_mut ==
    /\ op # "&str"
    /\ op' = "deref_mut"
    /\ arg' = <<>>
    /\ Becomes(deref_mut_make_ascii_uppercase(this))

NextBuilder ==
    \/ \E col \in BuilderColors : Builder_color(col)
    \/ \E col \in BuilderColors : Builder_on_color(col)
    \/ \E s \in StyleMethods : Builder_style(s)
    \/ \E col \in ConditionalColors, cond \in BOOLEAN : Builder_color_if(col, cond)
    \/ \E col \in ConditionalColors, cond \in BOOLEAN :
          Builder_on_color_if(col, cond)
    \/ Builder_clear_fgcolor
    \/ Builder_clear_bgcolor
    \/ Builder_clear_style
    \/ \E text \in ReceiverTexts : Builder_assign_input(text)
    \/ Builder_deref_mut

SpecBuilder == InitBuilder /\ [][NextBuilder]_vars

-----------------------------------------------------------------------------
(* Hex colours: one call with the hex string arg on the ColoredString of   *)
(* the state; ret is what the call returns, or Panic                       *)

InitHex ==
    /\ level = "TrueColor"
    /\ c = Named("Black")
    /\ op = "none"
    /\ ret = <<>>
    /\ arg \in HexInputs
    /\ input = <<"h", "i">>
    /\ fgcolor = None
    /\ bgcolor = None
    /\ style = CLEAR
    /\ out = None

Call_parse_hex ==
    /\ op = "none"
    /\ op' = "parse_hex"
    /\ ret' = parse_hex(arg)
    /\ UNCHANGED <<level, c, arg, stringVars>>

Call_hexcolor ==
    /\ op = "none"
    /\ op' = "hexcolor"
    /\ ret' = hexcolor(this, arg)
    /\ UNCHANGED <<level, c, arg, stringVars>>

Call_try_hexcolor ==
    /\ op = "none"
    /\ op' = "try_hexcolor"
    /\ ret' = try_hexcolor(this, arg)
    /\ UNCHANGED <<level, c, arg, stringVars>>

Call_on_hexcolor ==
    /\ op = "none"
    /\ op' = "on_hexcolor"
    /\ ret' = on_hexcolor(this, arg)
    /\ UNCHANGED <<level, c, arg, stringVars>>

Call_try_on_hexcolor ==
    /\ op = "none"
    /\ op' = "try_on_hexcolor"
    /\ ret' = try_on_hexcolor(this, arg)
    /\ UNCHANGED <<level, c, arg, stringVars>>

NextHex ==
    \/ Call_parse_hex
    \/ Call_hexcolor
    \/ Call_try_hexcolor
    \/ Call_on_hexcolor
    \/ Call_try_on_hexcolor

SpecHex == InitHex /\ [][NextHex]_vars

-----------------------------------------------------------------------------
(* One value rendered again and again while the capability cell is        *)
(* written: op is the position of the render, arg.reads the capabilities  *)
(* it has read, arg.writes the writes made since it began, ret the        *)
(* capability that the render before it read first                        *)

InitRender ==
    /\ level \in ColorLevel
    /\ c = Named("Black")
    /\ op = "idle"
    /\ ret = None
    /\ arg = [reads |-> <<>>, writes |-> 0]
    /\ \E v \in RenderValues :
          /\ input = v.input
          /\ fgcolor = v.fgcolor
          /\ bgcolor = v.bgcolor
          /\ style = v.style
    /\ out = None

\* to_string() is entered
Render_begin ==
    /\ op \in {"idle", "done"}
    /\ op' = "reading"
    /\ ret' = IF op = "done" THEN Some(arg.reads[1]) ELSE ret
    /\ arg' = [reads |-> <<>>, writes |-> 0]
    /\ out' = None
    /\ UNCHANGED <<level, c, input, fgcolor, bgcolor, style>>

\* a read that returns the capability cached by the render before
Render_read_cached ==
    /\ op = "reading"
    /\ Len(arg.reads) < Len(ReadSlots)
    /\ arg' = [arg EXCEPT
                  !.reads = Append(@, IF ret # None THEN ret[1] ELSE level)]
    /\ UNCHANGED <<level, c, op, ret, stringVars>>

\* get_current_color_level() at the next read of the render
Render_read ==
    /\ op = "reading"
    /\ Len(arg.reads) < Len(ReadSlots)
    /\ arg' = [arg EXCEPT !.reads = Append(@, level)]
    /\ UNCHANGED <<level, c, op, ret, stringVars>>

\* fmt returns what it wrote
Render_end ==
    /\ op = "reading"
    /\ Len(arg.reads) = Len(ReadSlots)
    /\ op' = "done"
    /\ out' = Some(fmt_reads(this, arg.reads))
    /\ UNCHANGED <<level, c, ret, arg, input, fgcolor, bgcolor, style>>

\* control::set_should_colorize on another thread, or between two renders
Render_set_should_colorize(l) ==
    /\ level' = l
    /\ IF op = "reading"
       THEN /\ arg.writes < MaxWrites
            /\ arg' = [arg EXCEPT !.writes = @ + 1]
            /\ UNCHANGED <<op, out>>
       ELSE /\ op' = "idle"
            /\ out' = None
            /\ UNCHANGED arg
    /\ UNCHANGED <<c, ret, input, fgcolor, bgcolor, style>>

NextRender ==
    \/ Render_begin
    \/ Render_read
    \/ Render_end
    \/ \E l \in ColorLevel : Render_set_should_colorize(l)

SpecRender == InitRender /\ [][NextRender]_vars

-----------------------------------------------------------------------------
(* to_fg_str and to_bg_str call by call while the capability cell is      *)
(* written: op is the function entered, c the colour of its innermost     *)
(* call, arg the colours of the calls made so far, ret the fragment       *)
(* returned                                                                *)

InitCalls ==
    /\ level \in ColorLevel
    /\ c \in Color
    /\ op = "none"
    /\ ret = None
    /\ arg = <<>>
    /\ input = <<>>
    /\ fgcolor = None
    /\ bgcolor = None
    /\ style = CLEAR
    /\ out = None

\* to_fg_str or to_bg_str is called on c
Calls_enter(f) ==
    /\ op = "none"
    /\ op' = f
    /\ arg' = <<c>>
    /\ UNCHANGED <<level, c, ret, stringVars>>

\* the arm of the innermost call runs: it reads the capability, and calls
\* again on the downgraded colour or returns its fragment
Calls_arm ==
    /\ op # "none"
    /\ ret = None
    /\ LET next == IF op = "to_fg_str" THEN to_fg_str_recursion(c, level)
                   ELSE to_bg_str_recursion(c, level)
       IN IF next # None
          THEN /\ c' = next[1]
               /\ arg' = Append(arg, next[1])
               /\ ret' = ret
          ELSE /\ ret' = Some(IF op = "to_fg_str" THEN to_fg_str(c, level)
                              ELSE to_bg_str(c, level))
               /\ UNCHANGED <<c, arg>>
    /\ UNCHANGED <<level, op, stringVars>>

\* control::set_should_colorize on another thread during the call
Calls_set_should_colorize(l) ==
    /\ op # "none"
    /\ ret = None
    /\ level' = l
    /\ UNCHANGED <<c, op, ret, arg, stringVars>>

NextCalls ==
    \/ \E f \in {"to_fg_str", "to_bg_str"} : Calls_enter(f)
    \/ Calls_arm
    \/ \E l \in ColorLevel : Calls_set_should_colorize(l)

SpecCalls == InitCalls /\ [][NextCalls]_vars

-----------------------------------------------------------------------------
(* Properties of the colour model, checked under SpecColor *)

\* position (1..16) of a named colour in the order Black .. BrightWhite
Pos(col) == CHOOSE i \in 1..16 : NamedTags[i] = col.tag

\* the SGR foreground number of the named colour at position i
FgNumber(i) == IF i <= 8 THEN 30 + (i - 1) ELSE 90 + (i - 9)

\* the value of a string of decimal digits
DigitVal(ch) == CHOOSE d \in 0..9 : Digit(d) = ch
RECURSIVE ParseDec(_)
ParseDec(str) ==
    IF Len(str) = 0 THEN 0
    ELSE 10 * ParseDec(SubSeq(str, 1, Len(str) - 1)) + DigitVal(str[Len(str)])

IsPrefix(p, str) == Len(p) <= Len(str) /\ SubSeq(str, 1, Len(p)) = p

\* squared RGB distance as a plain integer
SqDist(x, y) ==
    (x[1] - y[1]) * (x[1] - y[1]) + (x[2] - y[2]) * (x[2] - y[2])
        + (x[3] - y[3]) * (x[3] - y[3])

\* the RGB value a nearest-colour search starts from
RgbOf(col) ==
    IF col.tag = "Ansi256" THEN ansi256_to_rgb(col.idx)
    ELSE <<col.r, col.g, col.b>>

TableRgb(i) == <<ANSI_16_COLORS[i][1], ANSI_16_COLORS[i][2], ANSI_16_COLORS[i][3]>>

\* C4: for every Ansi256 colour, to_fg_str and to_bg_str both give the fixed
\* code of the nearest 16-colour entry under Ansi16 and 38;5;idx / 48;5;idx
\* under every other capability.
C4_IndexedDowngradedUnderAnsi16 ==
    /\ (op = "to_fg_str" /\ c.tag = "Ansi256") =>
          ret = IF level = "Ansi16"
                THEN Dec(FgNumber(Pos(fallback_to_ansi16(c))))
                ELSE <<"3", "8", ";", "5", ";">> \o Dec(c.idx)
    /\ (op = "to_bg_str" /\ c.tag = "Ansi256") =>
          ret = IF level = "Ansi16"
                THEN Dec(FgNumber(Pos(fallback_to_ansi16(c))) + 10)
                ELSE <<"4", "8", ";", "5", ";">> \o Dec(c.idx)

\* C5 as stated: the three downgrade cases of a TrueColor, and a 38;2 / 48;2
\* fragment is returned only when the capability is TrueColor.
C5_TrueColorFragmentOnlyUnderTrueColor ==
    (op \in {"to_fg_str", "to_bg_str"}
        /\ (IsPrefix(<<"3", "8", ";", "2", ";">>, ret)
            \/ IsPrefix(<<"4", "8", ";", "2", ";">>, ret)))
    => level = "TrueColor"

\* C5 amended: for every TrueColor(r,g,b), to_fg_str and to_bg_str return the
\* fixed code of fallback_to_ansi16 under Ansi16, 38;5;i / 48;5;i of
\* fallback_to_ansi256 under Ansi256, and 38;2;r;g;b / 48;2;r;g;b under
\* TrueColor and also under the disabled capability; no other colour and no
\* other capability gives a 38;2 / 48;2 fragment.
C5_TrueColorByCapability ==
    /\ (op \in {"to_fg_str", "to_bg_str"} /\ c.tag = "TrueColor") =>
          LET base == IF op = "to_fg_str" THEN 0 ELSE 10
              lead == IF op = "to_fg_str" THEN <<"3", "8">> ELSE <<"4", "8">>
          IN ret = CASE level = "Ansi16" ->
                            Dec(FgNumber(Pos(fallback_to_ansi16(c))) + base)
                     [] level = "Ansi256" ->
                            lead \o <<";", "5", ";">>
                                 \o Dec(fallback_to_ansi256(c).idx)
                     [] OTHER ->
                            lead \o <<";", "2", ";">> \o Dec(c.r) \o <<";">>
                                 \o Dec(c.g) \o <<";">> \o Dec(c.b)
    /\ (op \in {"to_fg_str", "to_bg_str"}
          /\ (IsPrefix(<<"3", "8", ";", "2", ";">>, ret)
              \/ IsPrefix(<<"4", "8", ";", "2", ";">>, ret)))
       => (c.tag = "TrueColor" /\ level \in {"TrueColor", "None"})

C5_Witness ==
    /\ op = "to_bg_str"
    /\ c = TrueColor(255, 255, 255)
    /\ level = "Ansi256"
    /\ ret = <<"4", "8", ";", "5", ";", "1", "5">>

\* C6: each named colour has the same fixed code under every capability:
\* foreground 30..37 and 90..97 in table order, background 40..47 and
\* 100..107, the background number being the foreground number plus 10.
C6_NamedCodesFixed ==
    /\ (op = "to_fg_str" /\ c \in NamedColors) =>
          /\ ret = Dec(FgNumber(Pos(c)))
          /\ ParseDec(ret) \in (30..37) \cup (90..97)
    /\ (op = "to_bg_str" /\ c \in NamedColors) =>
          /\ ParseDec(ret) = FgNumber(Pos(c)) + 10
          /\ ParseDec(ret) = ParseDec(NamedFg[c.tag]) + 10
          /\ ret = Dec(ParseDec(ret))
          /\ ParseDec(ret) \in (40..47) \cup (100..107)

C6_Witness ==
    /\ op = "to_bg_str"
    /\ c = Named("BrightCyan")
    /\ level = "Ansi16"
    /\ ret = <<"1", "0", "6">>

\* C7: for an Ansi256 or TrueColor input, fallback_to_ansi16 returns a table
\* entry at minimum squared RGB distance from the input, and the first such
\* entry in table order.
C7_Nearest16FirstMinimum ==
    (op = "fallback_to_ansi16" /\ c.tag \in {"Ansi256", "TrueColor"}) =>
        /\ ret \in NamedColors
        /\ LET k == Pos(ret)
               best == SqDist(RgbOf(c), TableRgb(k))
           IN /\ ANSI_16_COLORS[k][4] = ret
              /\ \A j \in 1..16 : best <= SqDist(RgbOf(c), TableRgb(j))
              /\ \A j \in 1..(k - 1) : best < SqDist(RgbOf(c), TableRgb(j))

\* a tie: (64,0,0) is as far from Black as from Red, and Black comes first
C7_Witness ==
    /\ op = "fallback_to_ansi16"
    /\ c = TrueColor(64, 0, 0)
    /\ SqDist(RgbOf(c), TableRgb(1)) = SqDist(RgbOf(c), TableRgb(2))
    /\ ret = Named("Black")

\* C8: fallback_to_ansi16 always returns a named colour, returns a named
\* colour unchanged, and applied to its own result returns that result.
C8_Fallback16IdempotentClosed ==
    op = "fallback_to_ansi16" =>
        /\ ret \in NamedColors
        /\ fallback_to_ansi16(ret) = ret
        /\ (c \in NamedColors => ret = c)

C8_Witness ==
    /\ op = "fallback_to_ansi16"
    /\ c = Ansi256(244)
    /\ ret = Named("BrightBlack")

\* C9: for a TrueColor input, fallback_to_ansi256 returns Ansi256{idx} with
\* idx the smallest index at minimum squared RGB distance between the input
\* and ansi256_to_rgb(idx); every other input is returned unchanged.
C9_Nearest256SmallestIndex ==
    op = "fallback_to_ansi256" =>
        IF c.tag = "TrueColor" THEN
            /\ ret \in Ansi256Colors
            /\ LET best == SqDist(RgbOf(c), ansi256_to_rgb(ret.idx))
               IN /\ \A i \in 0..255 :
                        best <= SqDist(RgbOf(c), ansi256_to_rgb(i))
                  /\ \A i \in 0..(ret.idx - 1) :
                        best < SqDist(RgbOf(c), ansi256_to_rgb(i))
            /\ (c = TrueColor(0, 0, 0) => ret = Ansi256(0))
            /\ (c = TrueColor(255, 255, 255) => ret = Ansi256(15))
        ELSE ret = c

C9_Witness ==
    /\ op = "fallback_to_ansi256"
    /\ c = TrueColor(255, 255, 255)
    /\ ret = Ansi256(15)
    /\ ansi256_to_rgb(231) = ansi256_to_rgb(15)

\* C10: ansi256_to_rgb is the palette expansion: 0..15 the 16-colour table,
\* 16 + 36r + 6g + b the cube (V[r], V[g], V[b]) with V = 0, 95, 135, 175,
\* 215, 255, and 232..255 the grays 8 + 10 * (idx - 232).
C10_PaletteExpansion ==
    op = "ansi256_to_rgb" =>
        LET i == c.idx
            V == [d \in 0..5 |-> IF d = 0 THEN 0 ELSE 55 + 40 * d]
        IN /\ i \in 0..15 => ret = TableRgb(i + 1)
           /\ \A r \in 0..5, g \in 0..5, b \in 0..5 :
                 i = 16 + 36 * r + 6 * g + b => ret = <<V[r], V[g], V[b]>>
           /\ i \in 232..255 =>
                 ret = <<8 + 10 * (i - 232), 8 + 10 * (i - 232),
                         8 + 10 * (i - 232)>>
           /\ (i = 16 => ret = <<0, 0, 0>>)
           /\ (i = 231 => ret = <<255, 255, 255>>)
           /\ (i = 232 => ret = <<8, 8, 8>>)
           /\ (i = 255 => ret = <<238, 238, 238>>)
           /\ \A k \in 1..3 : ret[k] \in 0..255

C10_Witness ==
    /\ op = "ansi256_to_rgb"
    /\ c = Ansi256(255)
    /\ ret = <<238, 238, 238>>

\* the values of a u8
U8 == 0..255

\* the candidates of the nearest-colour search that op names
Candidates ==
    IF op = "fallback_to_ansi16"
    THEN {<<ANSI_16_COLORS[i][1], ANSI_16_COLORS[i][2], ANSI_16_COLORS[i][3]>> :
             i \in 1..16}
    ELSE {ansi256_to_rgb(i) : i \in 0..255}

\* C23: nothing overflows or indexes out of range.  In ansi256_to_rgb the
\* named index is 0..15, the cube digits are 0..5 and the gray value
\* 8 + 10 * (idx - 232) is a u8; in both nearest-colour searches every
\* squared distance is below the initial u32::MAX, so the first candidate
\* replaces it; the shorthand product n * 17 is a u8 for every hex digit n.
C23_NoOverflowNoOutOfRange ==
    /\ op = "ansi256_to_rgb" =>
          LET idx == c.idx
              i == idx - 16
          IN /\ idx < 16 => idx + 1 \in DOMAIN ANSI_16_COLORS
             /\ (idx >= 16 /\ idx <= 231) =>
                   /\ i \in U8
                   /\ {i \div 36, (i % 36) \div 6, i % 6} \subseteq 0..5
                   /\ \A d \in {i \div 36, (i % 36) \div 6, i % 6} :
                         d + 1 \in DOMAIN CUBE_VALUES
             /\ idx >= 232 =>
                   /\ {idx - 232, (idx - 232) * 10, 8 + (idx - 232) * 10}
                         \subseteq U8
                   /\ ret = <<8 + (idx - 232) * 10, 8 + (idx - 232) * 10,
                              8 + (idx - 232) * 10>>
             /\ \A k \in 1..3 : ret[k] \in U8
    /\ (op \in {"fallback_to_ansi16", "fallback_to_ansi256"}
           /\ c.tag \in {"TrueColor", "Ansi256"}) =>
          LET rgb == RgbOf(c)
          IN \A cand \in Candidates :
                /\ \A k \in 1..3 :
                      (rgb[k] - cand[k]) * (rgb[k] - cand[k]) <= 255 * 255
                /\ SqDist(rgb, cand) <= 3 * 255 * 255
                /\ LtU32(distance_sq(rgb[1], rgb[2], rgb[3],
                                     cand[1], cand[2], cand[3]), U32_MAX)
                /\ closer(distance_sq(rgb[1], rgb[2], rgb[3],
                                      cand[1], cand[2], cand[3]), U32_MAX)
    /\ \A n \in 1..16 :
          /\ (n - 1) * 17 \in U8
          /\ parse_hex(<<LowerHexDigits[n], LowerHexDigits[n],
                         LowerHexDigits[n]>>)
                = Return(Some(TrueColor((n - 1) * 17, (n - 1) * 17,
                                        (n - 1) * 17)))

\* the last gray: 8 + 10 * 23
C23_Witness ==
    /\ op = "ansi256_to_rgb"
    /\ c = Ansi256(255)
    /\ ret = <<238, 238, 238>>

\* C25: palette colours are fixed points of the downgrade.  For every
\* index i, fallback_to_ansi256 of the TrueColor with the RGB of i is an
\* index j <= i with the same RGB; for every i < 16, fallback_to_ansi16 of
\* Ansi256{i} is the named colour of entry i of the 16-colour table, whose
\* RGB is that of i, the 16 table RGBs being distinct.
C25_PaletteFixedPoints ==
    /\ (op = "fallback_to_ansi256" /\ c.tag = "TrueColor") =>
          \A i \in 0..255 :
              ansi256_to_rgb(i) = RgbOf(c) =>
                  /\ ret.tag = "Ansi256"
                  /\ ret.idx <= i
                  /\ ansi256_to_rgb(ret.idx) = ansi256_to_rgb(i)
    /\ (op = "fallback_to_ansi16" /\ c.tag = "Ansi256" /\ c.idx < 16) =>
          /\ ret = Named(NamedTags[c.idx + 1])
          /\ ret = ANSI_16_COLORS[c.idx + 1][4]
          /\ TableRgb(c.idx + 1) = ansi256_to_rgb(c.idx)
    /\ \A i \in 1..16, j \in 1..16 : TableRgb(i) = TableRgb(j) => i = j

\* a colour of the cube; index 16 repeats the RGB of index 0
C25_Witness ==
    /\ op = "fallback_to_ansi256"
    /\ c = TrueColor(135, 175, 215)
    /\ ret = Ansi256(16 + 36 * 2 + 6 * 3 + 4)
    /\ ansi256_to_rgb(16) = ansi256_to_rgb(0)

-----------------------------------------------------------------------------
(* Properties of the nested calls of to_fg_str and to_bg_str, checked     *)
(* under SpecCalls                                                         *)

\* the tier of a colour: 3 for a TrueColor, 2 for an Ansi256, 1 for a named
Tier(col) ==
    CASE col.tag = "TrueColor" -> 3
      [] col.tag = "Ansi256" -> 2
      [] OTHER -> 1

\* C24: to_fg_str and to_bg_str terminate: every recursive call is on a
\* colour of a strictly lower tier, a named colour never recurses, so there
\* are at most two nested recursive calls, whatever the capability cell
\* holds at each read.
C24_CallsDescendTiers ==
    op # "none" =>
        /\ Len(arg) <= 3
        /\ \A i \in 1..(Len(arg) - 1) : Tier(arg[i + 1]) < Tier(arg[i])
        /\ arg[Len(arg)] = c
        /\ (Tier(c) = 1 /\ op = "to_fg_str") => to_fg_str_recursion(c, level) = None
        /\ (Tier(c) = 1 /\ op = "to_bg_str") => to_bg_str_recursion(c, level) = None
        /\ (ret # None /\ Tier(c) = 1) =>
              ret[1] = (IF op = "to_fg_str" THEN NamedFg ELSE NamedBg)[c.tag]

\* two nested calls: Ansi256 was read, then Ansi16
C24_Witness ==
    /\ op = "to_bg_str"
    /\ Len(arg) = 3
    /\ arg[1] = TrueColor(255, 95, 0)
    /\ arg[2].tag = "Ansi256"
    /\ Tier(arg[3]) = 1
    /\ ret # None

-----------------------------------------------------------------------------
(* Properties of the style bit set, checked under SpecStyle *)

\* the attributes in the order of their codes in the parameter list
StyleOrder ==
    <<"Bold", "Dimmed", "Underline", "Reversed", "Italic", "Blink", "Hidden",
      "Strikethrough">>

\* the eight attributes
Attributes == Styles \ {"Clear"}

\* the SGR code of an attribute
AttrCode(a) ==
    CASE a = "Bold" -> "1"
      [] a = "Dimmed" -> "2"
      [] a = "Italic" -> "3"
      [] a = "Underline" -> "4"
      [] a = "Blink" -> "5"
      [] a = "Reversed" -> "7"
      [] a = "Hidden" -> "8"
      [] a = "Strikethrough" -> "9"

\* the bit of an attribute in the u8 of a Style
AttrBit(a) ==
    CASE a = "Bold" -> BOLD
      [] a = "Dimmed" -> DIMMED
      [] a = "Italic" -> ITALIC
      [] a = "Underline" -> UNDERLINE
      [] a = "Blink" -> BLINK
      [] a = "Reversed" -> REVERSED
      [] a = "Hidden" -> HIDDEN
      [] a = "Strikethrough" -> STRIKETHROUGH

\* attribute a is switched on in the u8 x
Has(x, a) == (x \div AttrBit(a)) % 2 = 1

\* the codes of the attributes of x in StyleOrder from position k on, each
\* followed by ';'
RECURSIVE CodesFrom(_, _)
CodesFrom(x, k) ==
    IF k > Len(StyleOrder) THEN <<>>
    ELSE (IF Has(x, StyleOrder[k]) THEN <<AttrCode(StyleOrder[k]), ";">>
          ELSE <<>>) \o CodesFrom(x, k + 1)

\* C11: for each of the 256 Style values, to_str is the ';'-joined list of
\* the codes of exactly the attributes it contains, each once, in the order
\* Bold, Dimmed, Underline, Reversed, Italic, Blink, Hidden, Strikethrough;
\* it is empty exactly for Clear, and the full set gives 1;2;4;7;3;5;8;9.
C11_StyleToStr ==
    op = "Style::to_str" =>
        /\ ret \o (IF style = CLEAR THEN <<>> ELSE <<";">>) = CodesFrom(style, 1)
        /\ (ret = <<>>) <=> (style = CLEAR)
        /\ \A a \in Attributes :
              contains(style, a)
                 <=> Cardinality({i \in 1..Len(ret) : ret[i] = AttrCode(a)}) = 1
        /\ \A a \in Attributes :
              Cardinality({i \in 1..Len(ret) : ret[i] = AttrCode(a)}) <= 1
        /\ style = 255 =>
              ret = <<"1", ";", "2", ";", "4", ";", "7", ";", "3", ";", "5",
                      ";", "8", ";", "9">>

\* Underline (4) comes before Italic (3)
C11_Witness ==
    /\ op = "Style::to_str"
    /\ style = BOLD + UNDERLINE + ITALIC + STRIKETHROUGH
    /\ ret = <<"1", ";", "4", ";", "3", ";", "9">>

\* C12: x | !x contains all eight attributes, x & !x is Clear, !!x is x, the
\* complement of Clear is the full set and that of the full set is Clear,
\* and !s for one attribute s contains every attribute but s.
C12_Complement ==
    /\ op = "Style|!Style" =>
          (\A a \in Attributes : contains(ret, a)) /\ ret = 255
    /\ op = "Style&!Style" => ret = CLEAR
    /\ op = "!!Style" => ret = style
    /\ op = "!Style" =>
          /\ ret = 255 - style
          /\ \A a \in Attributes : contains(ret, a) <=> ~contains(style, a)
          /\ (style = CLEAR => ret = 255)
          /\ (style = 255 => ret = CLEAR)
    /\ (op = "!Styles" /\ arg \in Attributes) =>
          \A a \in Attributes : contains(ret, a) <=> a # arg

C12_Witness ==
    /\ op = "!Styles"
    /\ arg = "Bold"
    /\ ret = 254
    /\ ~contains(ret, "Bold")
    /\ contains(ret, "Strikethrough")

\* C13: add(s) switches s on and remove(s) switches it off, for every
\* attribute s, leaving every other attribute as it was; x &= !mask keeps
\* exactly the attributes of x that are not in mask; from_iter(list)
\* contains exactly the attributes in the list.
C13_AddRemoveFrame ==
    /\ (op = "Style::add" /\ arg \in Attributes) =>
          /\ contains(ret, arg)
          /\ \A a \in Attributes \ {arg} : contains(ret, a) <=> contains(style, a)
    /\ (op = "Style::remove" /\ arg \in Attributes) =>
          /\ ~contains(ret, arg)
          /\ \A a \in Attributes \ {arg} : contains(ret, a) <=> contains(style, a)
    /\ op = "Style&=!Style" =>
          \A a \in Attributes :
              contains(ret, a) <=> (contains(style, a) /\ ~contains(arg, a))
    /\ op = "Style::from_iter" =>
          \A a \in Attributes :
              contains(ret, a) <=> (\E i \in 1..Len(arg) : arg[i] = a)

\* removing an attribute that is not switched on
C13_Witness ==
    /\ op = "Style::remove"
    /\ arg = "Italic"
    /\ style = BOLD + HIDDEN
    /\ ret = BOLD + HIDDEN

-----------------------------------------------------------------------------
(* Properties of chained builder calls, checked under SpecChain *)

\* the positions of the calls of the given methods in a chain
CallsOf(calls, ms) == {i \in 1..Len(calls) : calls[i].m \in ms}

\* the largest element of a non-empty set of numbers
Max(S) == CHOOSE i \in S : \A j \in S : j <= i

\* the colour of the last call of method m among calls[from..], if any
LastColor(calls, m, from) ==
    LET at == {i \in CallsOf(calls, {m}) : i >= from}
    IN IF at = {} THEN None ELSE Some(calls[Max(at)].col)

\* attribute a is given by a style call among calls[from..]
Given(calls, a, from) ==
    \E i \in CallsOf(calls, {"style"}) : i >= from /\ calls[i].s = a

\* the position after the last clear() or normal() of a chain
AfterReset(calls) ==
    LET at == CallsOf(calls, {"clear", "normal"})
    IN IF at = {} THEN 1 ELSE Max(at) + 1

\* C14 as stated: after any chain of builder calls the foreground is the
\* colour of the last foreground call (None without one), the background
\* that of the last background call, and the style is the union of every
\* attribute call of the chain.
C14_LastColorAllAttributes ==
    /\ fgcolor = LastColor(arg, "color", 1)
    /\ bgcolor = LastColor(arg, "on_color", 1)
    /\ \A a \in Attributes : contains(style, a) <=> Given(arg, a, 1)

\* C14 amended: the same, counting only the calls made after the last
\* clear() or normal() of the chain; among those calls colours are
\* last-write-wins per slot and attributes accumulate.
C14_LastColorAllAttributesSinceClear ==
    /\ fgcolor = LastColor(arg, "color", AfterReset(arg))
    /\ bgcolor = LastColor(arg, "on_color", AfterReset(arg))
    /\ \A a \in Attributes :
          contains(style, a) <=> Given(arg, a, AfterReset(arg))

\* two foreground calls around two attribute calls
C14_Witness ==
    /\ Len(arg) = 3
    /\ arg[1].m = "color"
    /\ arg[2].m = "style"
    /\ arg[3].m = "color"
    /\ arg[3].col # arg[1].col
    /\ fgcolor = Some(arg[3].col)
    /\ contains(style, arg[2].s)

\* C15: clear() and normal(), after any chain of builder calls, keep the
\* text and return a value with no foreground, no background and the Clear
\* style, which is plain and equal to ColoredString::from(text); so
\* ColoredString::from(text).clear().input is text.
C15_ClearKeepsOnlyText ==
    [][(Len(arg') = Len(arg) + 1 /\ arg'[Len(arg')].m \in {"clear", "normal"})
          => /\ input' = input
             /\ fgcolor' = None
             /\ bgcolor' = None
             /\ style' = CLEAR
             /\ is_plain(this)'
             /\ this' = ColoredString_from(input)]_vars

\* clear() after a colour and an attribute
C15_Witness ==
    /\ Len(arg) = 3
    /\ arg[1].m = "color"
    /\ arg[2].m = "style"
    /\ arg[3].m = "clear"
    /\ input = <<"h", "i">>
    /\ fgcolor = None
    /\ style = CLEAR

-----------------------------------------------------------------------------
(* Properties of single calls, checked under SpecBuilder *)

\* the fields of a ColoredString
Fields == {"input", "fgcolor", "bgcolor", "style"}

\* the step leaves every field but those of F as it was
Only(F) ==
    /\ "input" \notin F => input' = input
    /\ "fgcolor" \notin F => fgcolor' = fgcolor
    /\ "bgcolor" \notin F => bgcolor' = bgcolor
    /\ "style" \notin F => style' = style

\* the step is a call of method m
Calls(m) == op' = m

\* C16: each builder or mutation writes its own slot only: color() the
\* foreground, on_color() the background, an attribute method the style
\* (adding its attribute), clear_fgcolor, clear_bgcolor and clear_style the
\* field they name, and assigning input or editing the text through
\* DerefMut the text.
C16_OwnSlotOnly ==
    [][/\ Calls("color") => Only({"fgcolor"}) /\ fgcolor' = Some(arg'.col)
       /\ Calls("on_color") => Only({"bgcolor"}) /\ bgcolor' = Some(arg'.col)
       /\ Calls("style") =>
             /\ Only({"style"})
             /\ \A a \in Attributes :
                   contains(style', a) <=> (contains(style, a) \/ a = arg'.s)
       /\ Calls("clear_fgcolor") => Only({"fgcolor"}) /\ fgcolor' = None
       /\ Calls("clear_bgcolor") => Only({"bgcolor"}) /\ bgcolor' = None
       /\ Calls("clear_style") => Only({"style"}) /\ style' = CLEAR
       /\ Calls("input=") => Only({"input"}) /\ input' = arg'.text
       /\ Calls("deref_mut") => Only({"input"}) /\ Len(input') = Len(input)
      ]_vars

\* the text was edited in place under a foreground, a background and a style
C16_Witness ==
    /\ op = "deref_mut"
    /\ input = <<"H", "I">>
    /\ fgcolor = Some(Named("Red"))
    /\ bgcolor = Some(Ansi256(196))
    /\ style = BOLD + ITALIC

\* C17: a conditional method called with false returns the receiver with
\* its four fields as they were (a bare &str becomes a plain value of that
\* text); called with true it returns what the unconditional method
\* returns.
C17_ConditionalVariants ==
    [][/\ (op' = "color_if" /\ ~arg'.cond) =>
             Only({}) /\ (op = "&str" => is_plain(this)')
       /\ (op' = "on_color_if" /\ ~arg'.cond) =>
             Only({}) /\ (op = "&str" => is_plain(this)')
       /\ (op' = "color_if" /\ arg'.cond) =>
             this' = IF op = "&str" THEN str_color(input, arg'.col)
                     ELSE ColoredString_color(this, arg'.col)
       /\ (op' = "on_color_if" /\ arg'.cond) =>
             this' = IF op = "&str" THEN str_on_color(input, arg'.col)
                     ELSE ColoredString_on_color(this, arg'.col)
      ]_vars

\* "green".green().red_if(false), with an attribute: the colour is kept
C17_Witness ==
    /\ op = "color_if"
    /\ arg = [col |-> Named("Red"), cond |-> FALSE]
    /\ fgcolor = Some(Named("BrightCyan"))
    /\ style = UNDERLINE

-----------------------------------------------------------------------------
(* Properties of hex colours, checked under SpecHex *)

\* the value of a hexadecimal digit
HexValue(ch) ==
    CASE ch = "0" -> 0 [] ch = "1" -> 1 [] ch = "2" -> 2 [] ch = "3" -> 3
      [] ch = "4" -> 4 [] ch = "5" -> 5 [] ch = "6" -> 6 [] ch = "7" -> 7
      [] ch = "8" -> 8 [] ch = "9" -> 9
      [] ch \in {"a", "A"} -> 10 [] ch \in {"b", "B"} -> 11
      [] ch \in {"c", "C"} -> 12 [] ch \in {"d", "D"} -> 13
      [] ch \in {"e", "E"} -> 14 [] ch \in {"f", "F"} -> 15

\* the hexadecimal digits
HexDigitChars ==
    {"0", "1", "2", "3", "4", "5", "6", "7", "8", "9", "a", "b", "c", "d",
     "e", "f", "A", "B", "C", "D", "E", "F"}

\* str is made of hexadecimal digits, n of them
IsHexDigits(str, n) ==
    Len(str) = n /\ \A i \in 1..Len(str) : str[i] \in HexDigitChars

\* a hex string without its leading '#', if it has one
HexBody(str) == IF str # <<>> /\ str[1] = "#" THEN Tail(str) ELSE str

\* an optional '#', then exactly 3 or exactly 6 hexadecimal digits
WellFormedHex(str) ==
    IsHexDigits(HexBody(str), 3) \/ IsHexDigits(HexBody(str), 6)

\* the colour that 3 or 6 hexadecimal digits stand for
HexColorOf(body) ==
    IF Len(body) = 3
    THEN TrueColor(16 * HexValue(body[1]) + HexValue(body[1]),
                   16 * HexValue(body[2]) + HexValue(body[2]),
                   16 * HexValue(body[3]) + HexValue(body[3]))
    ELSE TrueColor(16 * HexValue(body[1]) + HexValue(body[2]),
                   16 * HexValue(body[3]) + HexValue(body[4]),
                   16 * HexValue(body[5]) + HexValue(body[6]))

\* C18: parse_hex returns a colour exactly for the strings made of an
\* optional leading '#' and exactly 3 or exactly 6 hexadecimal digits, and
\* returns None for every other string it returns for, those with a sign
\* character included.
C18_AcceptsExactlyHexDigits ==
    (op = "parse_hex" /\ ret.kind = "return") =>
        ((ret.val # None) <=> WellFormedHex(arg))

\* C19: try_hexcolor and try_on_hexcolor return for every hex string, None
\* when it is invalid and otherwise Some value whose foreground (resp.
\* background) is the parsed TrueColor; hexcolor and on_hexcolor panic
\* exactly on the strings for which the try variants return None.
C19_TryVariantsNeverPanic ==
    /\ op = "try_hexcolor" =>
          /\ ret.kind = "return"
          /\ IF parse_hex(arg) = Return(None) THEN ret.val = None
             ELSE /\ ret.val # None
                  /\ ret.val[1].fgcolor = parse_hex(arg).val
                  /\ ret.val[1].fgcolor[1].tag = "TrueColor"
    /\ op = "try_on_hexcolor" =>
          /\ ret.kind = "return"
          /\ IF parse_hex(arg) = Return(None) THEN ret.val = None
             ELSE /\ ret.val # None
                  /\ ret.val[1].bgcolor = parse_hex(arg).val
                  /\ ret.val[1].bgcolor[1].tag = "TrueColor"
    /\ op = "hexcolor" =>
          (ret = Panic <=> try_hexcolor(this, arg) = Return(None))
    /\ op = "on_hexcolor" =>
          (ret = Panic <=> try_on_hexcolor(this, arg) = Return(None))

\* each digit of three, twice
Doubled(body) == <<body[1], body[1], body[2], body[2], body[3], body[3]>>

\* C20: three hexadecimal digits abc parse to the colour of aabbcc, each
\* digit n giving the byte 16 * n + n, and '#' before 3 or 6 hexadecimal
\* digits does not change the colour they parse to.
C20_ShorthandAndPrefix ==
    (op = "parse_hex" /\ WellFormedHex(arg)) =>
        /\ ret = Return(Some(HexColorOf(HexBody(arg))))
        /\ ret = parse_hex(HexBody(arg))
        /\ ret = parse_hex(<<"#">> \o HexBody(arg))
        /\ Len(HexBody(arg)) = 3 => ret = parse_hex(Doubled(HexBody(arg)))

\* "#f09" is "ff0099"
C20_Witness ==
    /\ op = "parse_hex"
    /\ arg = <<"#", "f", "0", "9">>
    /\ ret = Return(Some(TrueColor(255, 0, 153)))
    /\ ret = parse_hex(<<"f", "f", "0", "0", "9", "9">>)

-----------------------------------------------------------------------------
(* Properties of renders under a changing capability, checked under       *)
(* SpecRender                                                              *)

\* C21: a render made after the capability was set to L, with no set since,
\* returns the output defined for L, whatever the capability was when the
\* value was built or rendered before.
C21_CapabilityReadLive ==
    (op = "done" /\ arg.writes = 0) => out = Some(fmt(this, level))

\* rendered under one capability, then under another
C21_Witness ==
    /\ op = "done"
    /\ arg.writes = 0
    /\ ret = Some("TrueColor")
    /\ level = "Ansi16"
    /\ fgcolor = Some(TrueColor(255, 95, 0))
    /\ out = Some(fmt(this, "Ansi16"))
    /\ out # Some(fmt(this, "TrueColor"))

\* C22: a render that runs while the capability cell is written returns
\* what it would return under one of the capabilities: every preamble and
\* every colour fragment is computed for the same capability, and the
\* output is never the text followed by ESC[0m without a leading preamble.
C22_RenderUnderOneCapability ==
    op = "done" =>
        /\ \E l \in ColorLevel : out = Some(fmt(this, l))
        /\ out # Some(input \o RESET)

-----------------------------------------------------------------------------
(* Properties of rendering, checked under Spec *)

\* the fields of the SGR parameter list: style codes, background, foreground
ParamFields ==
    LET has(a) == contains(style, a)
        sel == SelectSeq(StyleOrder, has)
        styleFields == [i \in 1..Len(sel) |-> Styles_to_str(sel[i])]
        bgField == IF bgcolor = None THEN <<>>
                   ELSE <<to_bg_str(bgcolor[1], level)>>
        fgField == IF fgcolor = None THEN <<>>
                   ELSE <<to_fg_str(fgcolor[1], level)>>
    IN styleFields \o bgField \o fgField

\* every field preceded by ';'
RECURSIVE Separated(_)
Separated(fields) ==
    IF Len(fields) = 0 THEN <<>>
    ELSE <<";">> \o fields[1] \o Separated(Tail(fields))

\* the fields joined by ';'
Params == Tail(Separated(ParamFields))

\* no leading ';', no ';;', no trailing ';'
NoEmptyField(p) ==
    /\ p # <<>>
    /\ p[1] # ";"
    /\ p[Len(p)] # ";"
    /\ \A i \in 1..(Len(p) - 1) : ~(p[i] = ";" /\ p[i + 1] = ";")

\* text with pre inserted after every reset sequence, scanning from the left
RECURSIVE Rewritten(_, _)
Rewritten(text, pre) ==
    IF Len(text) = 0 THEN <<>>
    ELSE IF IsPrefix(RESET, text)
         THEN RESET \o pre \o Rewritten(SubSeq(text, 5, Len(text)), pre)
         ELSE <<text[1]>> \o Rewritten(Tail(text), pre)

\* the k characters of text from position i on, as far as there are any
Window(text, i, k) ==
    IF i + k - 1 <= Len(text) THEN SubSeq(text, i, i + k - 1)
    ELSE SubSeq(text, i, Len(text))

\* the number of reset sequences in text (two cannot overlap)
Occurrences(text) ==
    Cardinality({i \in 1..Len(text) : Window(text, i, 4) = RESET})

Styled == fgcolor # None \/ bgcolor # None \/ style # CLEAR

\* C1 as stated: a styled value rendered under an enabled capability is
\* ESC[ params m, the text, ESC[0m, params being the non-empty ';'-joined
\* list of style codes, background code, foreground code.
C1_OutputIsPreambleTextReset ==
    (out # None /\ level # "None" /\ Styled) =>
        /\ out[1] = <<"ESC", "[">> \o Params \o <<"m">> \o input \o RESET
        /\ NoEmptyField(Params)

\* C1 amended: a styled value rendered under an enabled capability is
\* ESC[ params m, then the text with ESC[ params m inserted after each
\* ESC[0m it contains (the text itself when it contains none), then ESC[0m;
\* params is the ';'-joined list of style codes, background code, foreground
\* code, never empty and without an empty field.
C1_OutputIsPreambleRewrittenTextReset ==
    (out # None /\ level # "None" /\ Styled) =>
        LET pre == <<"ESC", "[">> \o Params \o <<"m">>
        IN /\ out[1] = pre \o Rewritten(input, pre) \o RESET
           /\ (Occurrences(input) = 0 => out[1] = pre \o input \o RESET)
           /\ NoEmptyField(Params)
           /\ (/\ input = <<"x">>
               /\ fgcolor = Some(Named("Red"))
               /\ bgcolor = None
               /\ style = BOLD
               /\ level = "TrueColor")
              => out[1] = <<"ESC", "[", "1", ";", "3", "1", "m", "x",
                            "ESC", "[", "0", "m">>

\* Clear style and a background only: no leading ';'
C1_Witness ==
    /\ out # None
    /\ level = "Ansi256"
    /\ style = CLEAR
    /\ fgcolor = None
    /\ bgcolor = Some(Named("BrightCyan"))
    /\ input = <<"x">>
    /\ out[1] = <<"ESC", "[", "1", "0", "6", "m", "x", "ESC", "[", "0", "m">>

\* C2: under the disabled capability, or for a plain value, to_string()
\* returns the text unchanged.
C2_PlainOrDisabledIsText ==
    (out # None /\ (level = "None" \/ ~Styled)) =>
        /\ out[1] = input
        /\ Len(out[1]) = Len(input)

\* a styled value with a reset sequence in its text, colours disabled
C2_Witness ==
    /\ out # None
    /\ level = "None"
    /\ fgcolor = Some(TrueColor(255, 95, 0))
    /\ style # CLEAR
    /\ input = <<"x">> \o RESET
    /\ out[1] = input

\* C3: for a styled value rendered under an enabled capability, the output
\* between the preamble and the final ESC[0m is the text with the preamble
\* inserted after every ESC[0m: n occurrences give n insertions, none gives
\* the text itself.
C3_ResetsFollowedByPreamble ==
    (out # None /\ level # "None" /\ Styled) =>
        LET pre == compute_style(this, level)
            n == Occurrences(input)
            inner == SubSeq(out[1], Len(pre) + 1, Len(out[1]) - Len(RESET))
        IN /\ IsPrefix(pre, out[1])
           /\ Len(out[1]) >= Len(pre) + Len(RESET)
           /\ inner = Rewritten(input, pre)
           /\ Len(inner) = Len(input) + n * Len(pre)
           /\ Occurrences(inner) = n
           /\ \A i \in 1..Len(inner) :
                 Window(inner, i, 4) = RESET
                    => Window(inner, i + 4, Len(pre)) = pre
           /\ (n = 0 => inner = input)

\* two reset sequences in the text, each followed by the bold preamble
C3_Witness ==
    /\ out # None
    /\ level = "Ansi16"
    /\ style = BOLD
    /\ fgcolor = None
    /\ bgcolor = None
    /\ input = RESET \o RESET
    /\ out[1] = <<"ESC", "[", "1", "m">> \o RESET \o <<"ESC", "[", "1", "m">>
                    \o RESET \o <<"ESC", "[", "1", "m">> \o RESET

====
